---- MODULE Spec2Model ----
(***************************************************************************)
(* A model of the terminal_utils rendering substrate:                      *)
(*   - InputControl  (src/InputControl.h): the single-line text field,     *)
(*     together with the terminal cells and cursor it writes to;           *)
(*   - DirectoryDisplayBox (src/DirectoryDisplayBox.h): the scrollable     *)
(*     list and its fixed-stride patch buffer bf;                          *)
(*   - cursor (src/cursor.h): the tracked attribute state, update_to and   *)
(*     the set_ / update_ methods, with the terminal reading their output; *)
(*   - the scrollbars (src/WindowBox.h) and coord_box (src/coord.h);       *)
(*   - FooterBox (src/FooterBox.h), MultilineMessageBox                    *)
(*     (src/ConsoleBoxes.h), ButtonBox (src/ButtonBox.h) and               *)
(*     ProgressBarControl (src/WindowBox.h).                               *)
(* Each component has its own specification (SpecInput, SpecType, SpecGet, *)
(* SpecDir, SpecSqueeze, SpecScroll, SpecCursor, SpecAttr, SpecBar,        *)
(* SpecBox, SpecFooter, SpecBlink, SpecButton, SpecProgress); the          *)
(* variables of the other components stay at their initial values.         *)
(***************************************************************************)
EXTENDS Integers, Sequences, FiniteSets, TLC

VARIABLES ic, icPrev, icKey, icCall,
          dd, ddPrev, ddOp,
          cu, cuTarget, cuBuf, cuMark, cuPrev, cuOp,
          sb, bx,
          tm, ft, mb, bb, pb

vars == <<ic, icPrev, icKey, icCall, dd, ddPrev, ddOp,
          cu, cuTarget, cuBuf, cuMark, cuPrev, cuOp, sb, bx,
          tm, ft, mb, bb, pb>>
icVars == <<ic, icPrev, icKey, icCall>>
ddVars == <<dd, ddPrev, ddOp>>
cuVars == <<cu, cuTarget, cuBuf, cuMark, cuPrev, cuOp>>
sbVars == <<sb>>
bxVars == <<bx>>
tmVars == <<tm>>
wgVars == <<ft, mb, bb, pb>>

Min(a, b) == IF a <= b THEN a ELSE b
Max(a, b) == IF a >= b THEN a ELSE b

\* n copies of the code unit c (std::wstring::append(n, c))
Rep(n, c) == [i \in 1..n |-> c]

(***************************************************************************)
(*                           I n p u t C o n t r o l                       *)
(***************************************************************************)

\* Bounds of the InputControl model: the widest field and the largest
\* MaxLength that set_size is called with.
MaxCols == 3
MaxMaxLength == 4
\* The screen column of the field's first cell (Area.Top.Col): the terminal
\* cursor cannot move left of screen column 0.
AreaLeft == 1

\* Keys (ConsoleCMD.h key codes) and the characters typed in the model.
DisplayChars == {"a", "b"}
ControlKeys == {"BACKSPACEKEY", "HOMEKEY", "LEFTKEY", "RIGHTKEY", "ENDKEY",
                "INSERTKEY", "DELETEKEY"}
\* A key that is neither a control key of the field nor displayable.
OtherKeys == {"UPKEY"}
Keys == ControlKeys \cup DisplayChars \cup OtherKeys

\* wchar_t 0: no masking
NoMask == ""
MaskChars == {NoMask, "*"}

IsDisplayCharacter(x) == x \in DisplayChars

\* InputControl::box_length
box_length(s) == IF s.AreaCols <= s.MaxLength THEN s.AreaCols ELSE s.MaxLength

\* ---------------- the terminal, as the field's writes drive it ----------
\* cells: the AreaCols cells of the field; curCol: the terminal cursor's
\* column relative to the field; shape: the DECSCUSR shape; show: DECTCEM;
\* writes: the number of mz::Write calls of the current insert().

\* mz::Write of printable code units at the cursor
TermPut(s, chars) ==
    [s EXCEPT !.cells = [i \in 1..Len(s.cells) |->
                            IF i - 1 >= s.curCol /\ i - 1 < s.curCol + Len(chars)
                            THEN chars[i - s.curCol] ELSE s.cells[i]],
              !.curCol = s.curCol + Len(chars),
              !.writes = s.writes + 1]

\* CSI n D: a parameter of 0 moves one column, the cursor stops at column 0
\* of the screen.
TermLeft(s, n) ==
    [s EXCEPT !.curCol = Max(0 - AreaLeft, s.curCol - (IF n = 0 THEN 1 ELSE n)),
              !.writes = s.writes + 1]

\* CSI n C
TermRight(s, n) ==
    [s EXCEPT !.curCol = s.curCol + (IF n = 0 THEN 1 ELSE n),
              !.writes = s.writes + 1]

\* CSI n SP q
TermShape(s, n) == [s EXCEPT !.shape = n, !.writes = s.writes + 1]

\* InputControl::write_shape
write_shape(s) == TermShape(s, IF s.InsertOn THEN 1 ELSE 3)

\* InputControl::write_bbar_shape
write_bbar_shape(s) == TermShape(s, 5)

\* InputControl::write_right_bbar(Count): one Write of "CSI Count C CSI 5 SP q"
write_right_bbar(s, Count) ==
    [TermRight(s, Count) EXCEPT !.shape = 5]

\* InputControl::write_left_and_shape: one Write of "CSI D CSI {1|3} SP q"
write_left_and_shape(s) ==
    [TermLeft(s, 1) EXCEPT !.shape = IF s.InsertOn THEN 1 ELSE 3]

\* InputControl::format_to: the cells bf holds after the hide, colour and
\* position sequences: the visible slice (or mask characters), space padded
\* to Area.num_cols().
\* RemLength is a size_t: Text.size() - BeginIndex below zero is a huge
\* number, which the limit cuts to BoxLength.
format_to(s, DisplayCharacter) ==
    LET BoxLength == s.AreaCols
        Rem0 == Len(s.Text) - s.BeginIndex
        RemLength == IF Rem0 < 0 \/ Rem0 > BoxLength THEN BoxLength ELSE Rem0
    IN  (IF DisplayCharacter # NoMask
         THEN Rep(RemLength, DisplayCharacter)
         ELSE SubSeq(s.Text, s.BeginIndex + 1, s.BeginIndex + RemLength))
        \o Rep(BoxLength - RemLength, " ")

\* InputControl::print(Color, wc): format_to, then one Write of bf (hide the
\* cursor, go to Area.Top, write the cells).
\* With BeginIndex past the end of Text and no mask, substr throws
\* out_of_range inside the noexcept format_to: the program is terminated.
print(s, DisplayCharacter) ==
    IF DisplayCharacter = NoMask /\ s.BeginIndex > Len(s.Text)
    THEN [s EXCEPT !.terminated = TRUE]
    ELSE TermPut([s EXCEPT !.show = FALSE, !.curCol = 0],
                 format_to(s, DisplayCharacter))

\* InputControl::display_cursor: SetPos, the shape, SetShow
display_cursor(s) ==
    LET s1 == [s EXCEPT !.curCol = s.BeginOffset, !.writes = s.writes + 1]
        s2 == IF s1.BeginOffset >= box_length(s1) THEN TermShape(s1, 5)
              ELSE IF s1.InsertOn THEN TermShape(s1, 1)
              ELSE TermShape(s1, 3)
    IN  [s2 EXCEPT !.show = TRUE, !.writes = s2.writes + 1]

\* InputControl::print_and_display_cursor
print_and_display_cursor(s) == display_cursor(print(s, s.wc))

\* Text with the code unit at 1-based position p removed
RemoveAt(t, p) == [i \in 1..(Len(t) - 1) |-> IF i < p THEN t[i] ELSE t[i + 1]]

\* Text with x inserted so that it becomes the code unit at 1-based position p
InsertAt(t, p, x) ==
    [i \in 1..(Len(t) + 1) |-> IF i < p THEN t[i] ELSE IF i = p THEN x ELSE t[i - 1]]

\* BACKSPACEKEY without the step that scrolls the view when BeginOffset
\* falls below 0 (a faulty variant, for comparison)
KeyBackspaceUnclamped(s) ==
    IF s.BeginIndex + s.BeginOffset > 0
    THEN print_and_display_cursor(
             [s EXCEPT !.Text = RemoveAt(s.Text, s.BeginIndex + s.BeginOffset),
                       !.BeginOffset = s.BeginOffset - 1])
    ELSE s

\* process_control_keys, case BACKSPACEKEY
KeyBackspace(s) ==
    IF s.BeginIndex + s.BeginOffset > 0
    THEN LET c  == s.BeginIndex + s.BeginOffset
             s1 == [s EXCEPT !.Text = RemoveAt(s.Text, c),
                             !.BeginOffset = s.BeginOffset - 1]
             s2 == IF s1.BeginOffset < 0
                   THEN [s1 EXCEPT !.BeginOffset = 0, !.BeginIndex = s1.BeginIndex - 1]
                   ELSE s1
         IN  print_and_display_cursor(s2)
    ELSE s

\* process_control_keys, case HOMEKEY
KeyHome(s) ==
    LET BoxLength == box_length(s)
    IN  IF s.BeginIndex + s.BeginOffset > BoxLength
        THEN print_and_display_cursor([s EXCEPT !.BeginIndex = 0, !.BeginOffset = 0])
        ELSE IF s.BeginIndex + s.BeginOffset > 0
        THEN LET s1 == TermLeft(s, s.BeginOffset)
                 s2 == IF s.BeginOffset = BoxLength THEN write_shape(s1) ELSE s1
             IN  [s2 EXCEPT !.BeginIndex = 0, !.BeginOffset = 0]
        ELSE s

\* LEFTKEY without the scroll of the window at the left edge of the field (a
\* faulty variant, for comparison)
KeyLeftNoScroll(s) ==
    IF s.BeginOffset = box_length(s)
    THEN write_left_and_shape([s EXCEPT !.BeginOffset = s.BeginOffset - 1])
    ELSE IF s.BeginOffset > 0
    THEN TermLeft([s EXCEPT !.BeginOffset = s.BeginOffset - 1], 1)
    ELSE s

\* process_control_keys, case LEFTKEY
KeyLeft(s) ==
    LET BoxLength == box_length(s)
    IN  IF s.BeginOffset = BoxLength
        THEN write_left_and_shape([s EXCEPT !.BeginOffset = s.BeginOffset - 1])
        ELSE IF s.BeginOffset > 0
        THEN TermLeft([s EXCEPT !.BeginOffset = s.BeginOffset - 1], 1)
        ELSE IF s.BeginIndex > 0
        THEN print_and_display_cursor([s EXCEPT !.BeginIndex = s.BeginIndex - 1])
        ELSE s

\* process_control_keys, case RIGHTKEY
KeyRight(s) ==
    LET BoxLength == box_length(s)
    IN  IF s.BeginIndex + s.BeginOffset < Len(s.Text)
        THEN LET s1 == [s EXCEPT !.BeginOffset = s.BeginOffset + 1]
             IN  IF s1.BeginOffset < BoxLength THEN TermRight(s1, 1)
                 ELSE IF s1.BeginOffset = BoxLength THEN write_right_bbar(s1, 1)
                 ELSE print_and_display_cursor(
                          [s1 EXCEPT !.BeginIndex = s1.BeginIndex + 1,
                                     !.BeginOffset = BoxLength])
        ELSE s

\* process_control_keys, case ENDKEY
KeyEnd(s) ==
    LET BoxLength == box_length(s)
        textSize == Len(s.Text)
    IN  IF s.BeginIndex + BoxLength > textSize
        THEN IF s.BeginIndex + s.BeginOffset < textSize
             THEN [TermRight(s, textSize - s.BeginIndex - s.BeginOffset)
                       EXCEPT !.BeginOffset = textSize - s.BeginIndex]
             ELSE s
        ELSE IF s.BeginIndex + BoxLength < textSize
        THEN print_and_display_cursor(
                 [s EXCEPT !.BeginIndex = textSize - BoxLength,
                           !.BeginOffset = BoxLength])
        ELSE IF s.BeginOffset < BoxLength
        THEN [write_right_bbar(s, BoxLength - s.BeginOffset)
                  EXCEPT !.BeginOffset = textSize - s.BeginIndex]
        ELSE s

\* process_control_keys, case INSERTKEY
KeyInsert(s) ==
    LET s1 == [s EXCEPT !.InsertOn = ~s.InsertOn]
    IN  IF s1.BeginOffset < box_length(s1) THEN write_shape(s1) ELSE s1

\* DELETEKEY without the loop that shifts the rest of the text left: only
\* pop_back (a faulty variant, for comparison)
KeyDeleteLast(s) ==
    IF s.BeginIndex + s.BeginOffset < Len(s.Text)
    THEN print_and_display_cursor([s EXCEPT !.Text = RemoveAt(s.Text, Len(s.Text))])
    ELSE s

\* process_control_keys, case DELETEKEY
KeyDelete(s) ==
    LET EndIndex == s.BeginIndex + s.BeginOffset
    IN  IF EndIndex < Len(s.Text)
        THEN print_and_display_cursor([s EXCEPT !.Text = RemoveAt(s.Text, EndIndex + 1)])
        ELSE s

\* InputControl::process_control_keys for a key of the switch
process_control_keys(s, x) ==
    CASE x = "BACKSPACEKEY" -> KeyBackspace(s)
      [] x = "HOMEKEY"      -> KeyHome(s)
      [] x = "LEFTKEY"      -> KeyLeft(s)
      [] x = "RIGHTKEY"     -> KeyRight(s)
      [] x = "ENDKEY"       -> KeyEnd(s)
      [] x = "INSERTKEY"    -> KeyInsert(s)
      [] x = "DELETEKEY"    -> KeyDelete(s)

\* The validation at the head of InputControl::insert
InvalidState(s) ==
    \/ s.BeginIndex < 0
    \/ s.BeginOffset < 0
    \/ s.BeginOffset > s.AreaCols
    \/ s.BeginIndex + s.BeginOffset > Len(s.Text)
    \/ Len(s.Text) > s.MaxLength

\* The append without the scroll of the window past the box (a faulty
\* variant, for comparison)
InsertAppendNoScroll(s, x) ==
    [print_and_display_cursor(
         [s EXCEPT !.Text = Append(s.Text, x),
                   !.BeginOffset = Min(s.BeginOffset + 1, box_length(s))])
         EXCEPT !.ret = TRUE]

\* insert: Text below MaxLength and the cursor at the end of the text
InsertAppend(s, x) ==
    LET BoxLength == box_length(s)
        s1 == [s EXCEPT !.Text = Append(s.Text, x)]
    IN  IF s1.BeginOffset < BoxLength
        THEN LET s2 == TermPut(s1, <<IF s1.wc # NoMask THEN s1.wc
                                     ELSE s1.Text[Len(s1.Text)]>>)
                 s3 == [s2 EXCEPT !.BeginOffset = s2.BeginOffset + 1]
             IN  [(IF s3.BeginOffset = BoxLength THEN write_bbar_shape(s3) ELSE s3)
                      EXCEPT !.ret = TRUE]
        ELSE [print_and_display_cursor(
                  [s1 EXCEPT !.BeginIndex = s1.BeginIndex + 1,
                             !.BeginOffset = BoxLength])
                  EXCEPT !.ret = TRUE]

\* insert: Text below MaxLength and the cursor inside the text (overwrite or
\* insert, then the cursor advances); gives the state and Processed
InsertInside(s, x) ==
    LET OffsetIndex == s.BeginIndex + s.BeginOffset
        BoxLength == box_length(s)
        s1 == IF s.InsertOn
              THEN [s EXCEPT !.Text = [s.Text EXCEPT ![OffsetIndex + 1] = x]]
              ELSE [s EXCEPT !.Text = InsertAt(s.Text, OffsetIndex + 1, x)]
        s2 == [s1 EXCEPT !.BeginOffset = s1.BeginOffset + 1]
    IN  IF s2.BeginOffset >= BoxLength
        THEN [s2 EXCEPT !.BeginIndex = s2.BeginIndex + (s2.BeginOffset - BoxLength),
                        !.BeginOffset = BoxLength]
        ELSE s2

\* The overwrite at MaxLength without the cursor advance (a faulty variant,
\* for comparison)
InsertOverwriteFullStay(s, x) ==
    [print_and_display_cursor(
         [s EXCEPT !.Text = [s.Text EXCEPT ![s.BeginIndex + s.BeginOffset + 1] = x]])
         EXCEPT !.ret = TRUE]

\* insert: Text at MaxLength, overwrite mode, cursor inside the text
InsertOverwriteFull(s, x) ==
    LET OffsetIndex == s.BeginIndex + s.BeginOffset
        BoxLength == box_length(s)
        s1 == [s EXCEPT !.Text = [s.Text EXCEPT ![OffsetIndex + 1] = x]]
        s2 == IF s1.BeginOffset < BoxLength
              THEN [s1 EXCEPT !.BeginOffset = s1.BeginOffset + 1]
              ELSE IF s1.BeginIndex + s1.BeginOffset < s1.MaxLength
              THEN [s1 EXCEPT !.BeginIndex = s1.BeginIndex + 1]
              ELSE s1
    IN  [print_and_display_cursor(s2) EXCEPT !.ret = TRUE]

\* insert: what the final "return Processed >= 0" gives
ProcessedResult(Processed) == Processed >= 0

\* insert for a displayable character with a re-render on every path, the
\* rejected one included (a faulty variant, for comparison)
InsertDisplayableReprint(s, x) ==
    IF Len(s.Text) < s.MaxLength
    THEN IF s.BeginIndex + s.BeginOffset = Len(s.Text)
         THEN InsertAppend(s, x)
         ELSE [print_and_display_cursor(InsertInside(s, x)) EXCEPT !.ret = TRUE]
    ELSE IF s.InsertOn /\ s.BeginIndex + s.BeginOffset < Len(s.Text)
    THEN [print_and_display_cursor(
              [s EXCEPT !.Text = [s.Text EXCEPT ![s.BeginIndex + s.BeginOffset + 1] = x]])
              EXCEPT !.ret = TRUE]
    ELSE [print_and_display_cursor(s) EXCEPT !.ret = TRUE]

\* insert: the branch taken for a displayable character
InsertDisplayable(s, x) ==
    LET OffsetIndex == s.BeginIndex + s.BeginOffset
        textSize == Len(s.Text)
    IN  IF Len(s.Text) < s.MaxLength
        THEN IF OffsetIndex = Len(s.Text)
             THEN InsertAppend(s, x)
             ELSE \* Processed = 1
                  [print_and_display_cursor(InsertInside(s, x))
                       EXCEPT !.ret = ProcessedResult(1)]
        ELSE IF s.InsertOn /\ OffsetIndex < textSize
        THEN InsertOverwriteFull(s, x)
        ELSE \* Processed = 0: nothing is printed
             [s EXCEPT !.ret = ProcessedResult(0)]

\* InputControl::insert(x)
insert(s0, x) ==
    LET s == [s0 EXCEPT !.writes = 0]
    IN  IF InvalidState(s) THEN [s EXCEPT !.thrown = TRUE]
        ELSE IF x \in ControlKeys THEN [process_control_keys(s, x) EXCEPT !.ret = TRUE]
        ELSE IF ~IsDisplayCharacter(x) THEN [s EXCEPT !.ret = FALSE]
        ELSE InsertDisplayable(s, x)

\* A constructed InputControl after set_size(cols, maxLen), with the mask
\* character set, printed by get()/get_hidden() (print_and_display_cursor).
InputControlInit(cols, maxLen, mask) ==
    print_and_display_cursor(
        [Text |-> <<>>, BeginIndex |-> 0, BeginOffset |-> 0, InsertOn |-> FALSE,
         MaxLength |-> maxLen, AreaCols |-> cols, wc |-> mask,
         thrown |-> FALSE, terminated |-> FALSE, ret |-> TRUE,
         cells |-> Rep(cols, " "), curCol |-> 0, shape |-> 0, show |-> FALSE,
         writes |-> 0])

\* A component that a specification does not run stays as constructed:
\* the cursor with its default member initialisers F{0x00ffffff}, B{0}
IdleCursor ==
    [F |-> [R |-> 255, G |-> 255, B |-> 255, SHAPE |-> 0, BLINK |-> 0,
            UNDER |-> 0, SHOW |-> 0, BOLD |-> 0, NEG |-> 0],
     B |-> [R |-> 0, G |-> 0, B |-> 0]]
\* the list with no Area and no items
IdleDir == [phase |-> "idle"]
\* no get() or get_hidden() in progress
NoCall == [fn |-> "none", dc |-> NoMask]
\* no scrollbar drawn and no rectangle computed
IdleBar == [phase |-> "idle"]
IdleBox == [phase |-> "idle"]
\* a terminal no sequence was sent to, and a widget not yet constructed
IdleWidget == [phase |-> "idle"]

InitInput ==
    /\ \E cols \in 1..MaxCols, maxLen \in 1..MaxMaxLength, mask \in MaskChars :
           ic = InputControlInit(cols, maxLen, mask)
    /\ icPrev = ic
    /\ icKey = "none" /\ icCall = NoCall
    /\ dd = IdleDir /\ ddPrev = IdleDir /\ ddOp = "construct"
    /\ cu = IdleCursor /\ cuTarget = IdleCursor /\ cuPrev = IdleCursor
    /\ cuBuf = <<>> /\ cuMark = 0 /\ cuOp = 0
    /\ sb = IdleBar /\ bx = IdleBox
    /\ tm = IdleWidget /\ ft = IdleWidget /\ mb = IdleWidget
    /\ bb = IdleWidget /\ pb = IdleWidget

\* the text field as its constructor leaves it (no size set)
IdleInput == [phase |-> "idle"]

\* One key delivered to insert() by the loop of get()/get_hidden(); icKey
\* is the key and icPrev the field and the terminal as the call found them
Insert ==
    /\ ~ic.thrown
    /\ \E x \in Keys :
          /\ icKey' = x
          /\ icPrev' = [ic EXCEPT !.writes = 0, !.ret = TRUE]
          /\ ic' = insert(ic, x)
    /\ UNCHANGED <<icCall, ddVars, cuVars, sbVars, bxVars, tmVars, wgVars>>

\* Bounds: the widest field and the largest MaxLength that is typed into
TypeCols == 5
TypeMaxLength == 10

\* An empty field of any width and MaxLength up to the bounds, as get()
\* prints it before the first key
InitType ==
    /\ \E cols \in 1..TypeCols, maxLen \in 1..TypeMaxLength, mask \in MaskChars :
           ic = InputControlInit(cols, maxLen, mask)
    /\ icPrev = ic
    /\ icKey = "none" /\ icCall = NoCall
    /\ dd = IdleDir /\ ddPrev = IdleDir /\ ddOp = "construct"
    /\ cu = IdleCursor /\ cuTarget = IdleCursor /\ cuPrev = IdleCursor
    /\ cuBuf = <<>> /\ cuMark = 0 /\ cuOp = 0
    /\ sb = IdleBar /\ bx = IdleBox
    /\ tm = IdleWidget /\ ft = IdleWidget /\ mb = IdleWidget
    /\ bb = IdleWidget /\ pb = IdleWidget

\* One displayable character typed, while fewer than MaxLength were typed
Type ==
    /\ ~ic.thrown
    /\ Len(ic.Text) < ic.MaxLength
    /\ \E x \in DisplayChars :
          /\ icKey' = x
          /\ icPrev' = [ic EXCEPT !.writes = 0, !.ret = TRUE]
          /\ ic' = insert(ic, x)
    /\ UNCHANGED <<icCall, ddVars, cuVars, sbVars, bxVars, tmVars, wgVars>>

\* ---------------- get() and get_hidden(): the key loops ------------------
\* Bounds: the widest field and the largest MaxLength that get() reads into
GetCols == 2
GetMaxLength == 3

\* InputControl::clear
clear(s) == [s EXCEPT !.Text = <<>>, !.BeginIndex = 0, !.BeginOffset = 0]

\* One key of the loop of get(Final, DisplayCharacter): the field after the
\* key and whether get returned
get_key(s, x, DisplayCharacter) ==
    IF x = "RETURNKEY"
    THEN [s |-> print(s, DisplayCharacter), returned |-> TRUE]
    ELSE IF x = "ESCAPEKEY"
    THEN [s |-> print([clear(s) EXCEPT !.Text = <<>>], DisplayCharacter),
          returned |-> TRUE]
    ELSE [s |-> insert(s, x), returned |-> insert(s, x).thrown]

\* One key of the loop of get_hidden(Footer, Final, DisplayCharacter)
get_hidden_key(s, x, DisplayCharacter) ==
    IF x = "RETURNKEY"
    THEN [s |-> print(s, DisplayCharacter), returned |-> TRUE]
    ELSE IF x = "ESCAPEKEY"
    THEN [s |-> print([s EXCEPT !.Text = <<>>], DisplayCharacter),
          returned |-> TRUE]
    ELSE IF x = "SPACEKEY"
    THEN [s |-> print_and_display_cursor(
                    [s EXCEPT !.wc = IF s.wc # NoMask THEN NoMask ELSE "*"]),
          returned |-> FALSE]
    ELSE LET r == insert(s, x)
         IN  [s |-> IF ~r.thrown /\ ~r.ret THEN print_and_display_cursor(r) ELSE r,
              returned |-> r.thrown]

\* A field after set_size, before the first get() or get_hidden()
InitGet ==
    /\ \E cols \in 1..GetCols, maxLen \in 1..GetMaxLength :
           ic = [InputControlInit(cols, maxLen, NoMask)
                     EXCEPT !.cells = Rep(cols, " "), !.curCol = 0, !.shape = 0,
                            !.show = FALSE, !.writes = 0]
    /\ icPrev = ic
    /\ icKey = "none" /\ icCall = NoCall
    /\ dd = IdleDir /\ ddPrev = IdleDir /\ ddOp = "construct"
    /\ cu = IdleCursor /\ cuTarget = IdleCursor /\ cuPrev = IdleCursor
    /\ cuBuf = <<>> /\ cuMark = 0 /\ cuOp = 0
    /\ sb = IdleBar /\ bx = IdleBox
    /\ tm = IdleWidget /\ ft = IdleWidget /\ mb = IdleWidget
    /\ bb = IdleWidget /\ pb = IdleWidget

\* get(Final, DisplayCharacter) is called: the field is printed
CallGet ==
    /\ icCall.fn = "none" /\ ~ic.thrown /\ ~ic.terminated
    /\ \E dc \in MaskChars : icCall' = [fn |-> "get", dc |-> dc]
    /\ icKey' = "none"
    /\ icPrev' = [ic EXCEPT !.writes = 0, !.ret = TRUE]
    /\ ic' = print_and_display_cursor([ic EXCEPT !.writes = 0])
    /\ UNCHANGED <<ddVars, cuVars, sbVars, bxVars, tmVars, wgVars>>

\* get_hidden(Footer, Final, DisplayCharacter) is called: wc is set and the
\* field is printed
CallGetHidden ==
    /\ icCall.fn = "none" /\ ~ic.thrown /\ ~ic.terminated
    /\ \E dc \in MaskChars :
          /\ icCall' = [fn |-> "get_hidden", dc |-> dc]
          /\ ic' = print_and_display_cursor([ic EXCEPT !.writes = 0, !.wc = dc])
    /\ icKey' = "none"
    /\ icPrev' = [ic EXCEPT !.writes = 0, !.ret = TRUE]
    /\ UNCHANGED <<ddVars, cuVars, sbVars, bxVars, tmVars, wgVars>>

\* wgetch() gives one key to the loop of get()
GetKey ==
    /\ icCall.fn = "get" /\ ~ic.thrown /\ ~ic.terminated
    /\ \E x \in Keys \cup {"RETURNKEY", "ESCAPEKEY"} :
          LET r == get_key([ic EXCEPT !.writes = 0], x, icCall.dc)
          IN  /\ icKey' = x
              /\ ic' = r.s
              /\ icCall' = IF r.returned THEN NoCall ELSE icCall
    /\ icPrev' = [ic EXCEPT !.writes = 0, !.ret = TRUE]
    /\ UNCHANGED <<ddVars, cuVars, sbVars, bxVars, tmVars, wgVars>>

\* wgetch() gives one key to the loop of get_hidden()
GetHiddenKey ==
    /\ icCall.fn = "get_hidden" /\ ~ic.thrown /\ ~ic.terminated
    /\ \E x \in Keys \cup {"RETURNKEY", "ESCAPEKEY", "SPACEKEY"} :
          LET r == get_hidden_key([ic EXCEPT !.writes = 0], x, icCall.dc)
          IN  /\ icKey' = x
              /\ ic' = r.s
              /\ icCall' = IF r.returned THEN NoCall ELSE icCall
    /\ icPrev' = [ic EXCEPT !.writes = 0, !.ret = TRUE]
    /\ UNCHANGED <<ddVars, cuVars, sbVars, bxVars, tmVars, wgVars>>

(***************************************************************************)
(*                               c u r s o r                               *)
(***************************************************************************)

\* The colours and cursor shapes the model draws cursor states from.
Palette == { [r |-> 0, g |-> 0, b |-> 0], [r |-> 255, g |-> 0, b |-> 128] }
\* cursor_shape::none, bblock, sbar
Shapes == {0, 6}
Bits == {0, 1}

\* One escape sequence (or padding code unit) appended to a buffer
Esc(cmd, args) == [cmd |-> cmd, args |-> args]
\* The code unit 0 that SetBold, SetUnderline and SetNegative push after
\* their sequence
NulPad == Esc("NUL", <<>>)

\* ConsoleCMD.h, string-buffered functions
SetShow(Buff) == Append(Buff, Esc("?25h", <<>>))
SetHide(Buff) == Append(Buff, Esc("?25l", <<>>))
SetBlink(Buff) == Append(Buff, Esc("?12h", <<>>))
ClrBlink(Buff) == Append(Buff, Esc("?12l", <<>>))
SetShape(Buff, Shape) == Append(Buff, Esc("q", <<Shape>>))
SetBackColor(Buf, R, G, B) == Append(Buf, Esc("48;2", <<R, G, B>>))
SetFrontColor(Buf, R, G, B) == Append(Buf, Esc("38;2", <<R, G, B>>))
SetBold(Buff) == Append(Buff, Esc("1m", <<>>)) \o <<NulPad>>
ClrBold(Buff) == Append(Buff, Esc("22m", <<>>))
SetUnderline(Buff) == Append(Buff, Esc("4m", <<>>)) \o <<NulPad>>
ClrUnderline(Buff) == Append(Buff, Esc("24m", <<>>))
SetNegative(Buff) == Append(Buff, Esc("7m", <<>>)) \o <<NulPad>>
ClrNegative(Buff) == Append(Buff, Esc("27m", <<>>))

\* rgb::value(): RGB & 0x00ffffff, r in the low byte
rgb_value_of(RGB) == (RGB.r + 256 * RGB.g + 65536 * RGB.b) % 16777216

\* cursor_data::rgb_value(): value & 0x00ffffff, R in the low byte
rgb_value(d) == (d.R + 256 * d.G + 65536 * d.B) % 16777216

\* cursor_data::rgb()
rgb(d) == [r |-> d.R, g |-> d.G, b |-> d.B]

\* set that stores nothing (a faulty variant, for comparison)
set_nothing(d, RGB) == d

\* update that always reports a change (a faulty variant, for comparison)
update_always(d, RGB) == TRUE

\* cursor_data::set(RGB)
set(d, RGB) == [d EXCEPT !.R = RGB.r, !.G = RGB.g, !.B = RGB.b]

\* cursor_data::update(RGB): the returned flag
update(d, RGB) == rgb_value(d) # rgb_value_of(RGB)

\* cursor_state operator ==, on the six packed fields of F
StateEq(L, R) ==
    /\ L.SHAPE = R.SHAPE /\ L.BLINK = R.BLINK /\ L.UNDER = R.UNDER
    /\ L.SHOW = R.SHOW /\ L.BOLD = R.BOLD /\ L.NEG = R.NEG

\* A cursor together with the buffer its methods append to: F, B, Buff.

\* cursor::update_back_rgb
update_back_rgb(c, RGB) ==
    LET changed == update(c.B, RGB)
        c1 == [c EXCEPT !.B = set(c.B, RGB)]
    IN  IF changed
        THEN [c1 EXCEPT !.Buff = SetBackColor(c1.Buff, c1.B.R, c1.B.G, c1.B.B)]
        ELSE c1

\* cursor::update_front_rgb
update_front_rgb(c, RGB) ==
    LET changed == update(c.F, RGB)
        c1 == [c EXCEPT !.F = set(c.F, RGB)]
    IN  IF changed
        THEN [c1 EXCEPT !.Buff = SetFrontColor(c1.Buff, c1.F.R, c1.F.G, c1.F.B)]
        ELSE c1

\* cursor::apply_shape
apply_shape(c) == [c EXCEPT !.Buff = SetShape(c.Buff, c.F.SHAPE)]
\* cursor::apply_show
apply_show(c) ==
    [c EXCEPT !.Buff = IF c.F.SHOW = 1 THEN SetShow(c.Buff) ELSE SetHide(c.Buff)]
\* cursor::apply_blink
apply_blink(c) ==
    [c EXCEPT !.Buff = IF c.F.BLINK = 1 THEN SetBlink(c.Buff) ELSE ClrBlink(c.Buff)]
\* cursor::apply_negative
apply_negative(c) ==
    [c EXCEPT !.Buff = IF c.F.NEG = 1 THEN SetNegative(c.Buff) ELSE ClrNegative(c.Buff)]
\* cursor::apply_bold
apply_bold(c) ==
    [c EXCEPT !.Buff = IF c.F.BOLD = 1 THEN SetBold(c.Buff) ELSE ClrBold(c.Buff)]
\* cursor::apply_underline
apply_underline(c) ==
    [c EXCEPT !.Buff = IF c.F.UNDER = 1 THEN SetUnderline(c.Buff)
                       ELSE ClrUnderline(c.Buff)]

\* cursor::update_to(Buff, Rhs): the colours, then, when the packed state
\* bytes differ, each attribute compared, stored and applied in the order
\* of the code
update_to(c, Rhs) ==
    LET c1 == update_back_rgb(c, rgb(Rhs.B))
        c2 == update_front_rgb(c1, rgb(Rhs.F))
        c3 == IF c2.F.SHAPE # Rhs.F.SHAPE
              THEN apply_shape([c2 EXCEPT !.F.SHAPE = Rhs.F.SHAPE]) ELSE c2
        c4 == IF c3.F.SHOW # Rhs.F.SHOW
              THEN apply_show([c3 EXCEPT !.F.SHOW = Rhs.F.SHOW]) ELSE c3
        c5 == IF c4.F.BLINK # Rhs.F.BLINK
              THEN apply_blink([c4 EXCEPT !.F.BLINK = Rhs.F.BLINK]) ELSE c4
        c6 == IF c5.F.NEG # Rhs.F.NEG
              THEN apply_negative([c5 EXCEPT !.F.NEG = Rhs.F.NEG]) ELSE c5
        c7 == IF c6.F.BOLD # Rhs.F.BOLD
              THEN apply_bold([c6 EXCEPT !.F.BOLD = Rhs.F.BOLD]) ELSE c6
        c8 == IF c7.F.UNDER # Rhs.F.UNDER
              THEN apply_underline([c7 EXCEPT !.F.UNDER = Rhs.F.UNDER]) ELSE c7
    IN  IF ~StateEq(c2.F, Rhs.F) THEN c8 ELSE c2

\* The cursor states of the model: F carries the colour and the packed
\* attribute fields, B the background colour.
CursorData ==
    { [F |-> [R |-> f.r, G |-> f.g, B |-> f.b, SHAPE |-> sh, BLINK |-> bl,
              UNDER |-> un, SHOW |-> so, BOLD |-> bo, NEG |-> ne],
       B |-> [R |-> k.r, G |-> k.g, B |-> k.b]] :
      f \in Palette, k \in Palette, sh \in Shapes, bl \in Bits, un \in Bits,
      so \in Bits, bo \in Bits, ne \in Bits }

\* The most consecutive update_to calls with one target that a run makes
MaxUpdates == 2

InitCursor ==
    /\ cu \in CursorData
    /\ cuTarget \in CursorData
    /\ cuBuf = <<>>
    /\ cuMark = 0
    /\ cuPrev = cu
    /\ cuOp = 0
    /\ ic = IdleInput /\ icPrev = IdleInput /\ icKey = "none" /\ icCall = NoCall
    /\ dd = IdleDir /\ ddPrev = IdleDir /\ ddOp = "construct"
    /\ sb = IdleBar /\ bx = IdleBox
    /\ tm = IdleWidget /\ ft = IdleWidget /\ mb = IdleWidget
    /\ bb = IdleWidget /\ pb = IdleWidget

\* C.update_to(buf, X): cu is C, cuTarget is X, cuBuf is buf; cuMark is the
\* length buf had when the call began and cuPrev is C as the call found it
UpdateTo ==
    /\ cuOp < MaxUpdates
    /\ LET r == update_to([F |-> cu.F, B |-> cu.B, Buff |-> cuBuf], cuTarget)
       IN  /\ cu' = [F |-> r.F, B |-> r.B]
           /\ cuBuf' = r.Buff
    /\ cuMark' = Len(cuBuf)
    /\ cuPrev' = cu
    /\ cuOp' = cuOp + 1
    /\ UNCHANGED <<cuTarget, icVars, ddVars, sbVars, bxVars, tmVars, wgVars>>

\* ---------------- the set_ and update_ methods with a buffer -------------
\* The five attribute bits of F that have a set_ and an update_ method each
AttrBits == {"SHOW", "BLINK", "BOLD", "UNDER", "NEG"}

\* The command set_show / set_hide, set_blink / set_unblink, set_bold /
\* set_unbold, set_under / set_nounder, set_negative / set_positive append
SetOrClr(Buff, a, v) ==
    CASE a = "SHOW"  -> IF v = 1 THEN SetShow(Buff) ELSE SetHide(Buff)
      [] a = "BLINK" -> IF v = 1 THEN SetBlink(Buff) ELSE ClrBlink(Buff)
      [] a = "BOLD"  -> IF v = 1 THEN SetBold(Buff) ELSE ClrBold(Buff)
      [] a = "UNDER" -> IF v = 1 THEN SetUnderline(Buff) ELSE ClrUnderline(Buff)
      [] a = "NEG"   -> IF v = 1 THEN SetNegative(Buff) ELSE ClrNegative(Buff)

\* cursor::set_show(Buff), set_hide(Buff), set_blink(Buff), ...: the bit is
\* stored and its command appended
set_bit(c, a, v) == [c EXCEPT !.F[a] = v, !.Buff = SetOrClr(c.Buff, a, v)]

\* cursor::update_show(Buff), update_hide(Buff), ...: set only if different
update_bit(c, a, v) == IF c.F[a] # v THEN set_bit(c, a, v) ELSE c

\* ResetShape(Buff)
ResetShape(Buff) == Append(Buff, Esc("q", <<0>>))

\* cursor::set_shape(Buff) and set_shape(Buff, Shape)
set_shape(c, Shape) ==
    IF Shape = 0 THEN [c EXCEPT !.F.SHAPE = 0, !.Buff = ResetShape(c.Buff)]
    ELSE [c EXCEPT !.F.SHAPE = Shape, !.Buff = SetShape(c.Buff, Shape)]

\* cursor::update_shape(Buff) and update_shape(Buff, Shape)
update_shape(c, Shape) == IF c.F.SHAPE # Shape THEN set_shape(c, Shape) ELSE c

\* cursor::set_back_rgb(Buff, RGB)
set_back_rgb(c, RGB) ==
    LET c1 == [c EXCEPT !.B = set(c.B, RGB)]
    IN  [c1 EXCEPT !.Buff = SetBackColor(c1.Buff, c1.B.R, c1.B.G, c1.B.B)]

\* cursor::set_front_rgb(Buff, RGB)
set_front_rgb(c, RGB) ==
    LET c1 == [c EXCEPT !.F = set(c.F, RGB)]
    IN  [c1 EXCEPT !.Buff = SetFrontColor(c1.Buff, c1.F.R, c1.F.G, c1.F.B)]

\* cursor::set_colors(Buff, COLOR) and set_mirror_colors(Buff, COLOR)
set_colors(c, COLOR) == set_front_rgb(set_back_rgb(c, COLOR.B), COLOR.F)
set_mirror_colors(c, COLOR) == set_front_rgb(set_back_rgb(c, COLOR.F), COLOR.B)

\* cursor::update_colors(Buff, COLOR) and update_mirror(Buff, COLOR)
update_colors(c, COLOR) == update_front_rgb(update_back_rgb(c, COLOR.B), COLOR.F)
update_mirror(c, COLOR) == update_front_rgb(update_back_rgb(c, COLOR.F), COLOR.B)

\* cursor::mirror_colors: F and B exchange their R, G and B
mirror_colors(c) ==
    [c EXCEPT !.F.R = c.B.R, !.F.G = c.B.G, !.F.B = c.B.B,
              !.B.R = c.F.R, !.B.G = c.F.G, !.B.B = c.F.B]

\* cursor::apply_color: F.get().setFront(Buff), B.get().setBack(Buff)
apply_color(c) ==
    [c EXCEPT !.Buff = SetBackColor(SetFrontColor(c.Buff, c.F.R, c.F.G, c.F.B),
                                    c.B.R, c.B.G, c.B.B)]

\* apply_mirror that sends the colours and exchanges them afterwards (a
\* faulty variant, for comparison)
apply_then_mirror(c) == mirror_colors(apply_color(c))

\* cursor::apply_mirror
apply_mirror(c) == apply_color(mirror_colors(c))

\* cursor::apply: apply_cursor (show, shape, blink), apply_text (bold,
\* negative, underline), apply_color
apply(c) ==
    apply_color(apply_underline(apply_negative(apply_bold(
        apply_blink(apply_shape(apply_show(c)))))))

\* cursor::set_to(Buff, Rhs)
set_to(c, Rhs) == apply([c EXCEPT !.F = Rhs.F, !.B = Rhs.B])

\* ---------------- the terminal that reads the sequences ------------------
\* One sequence read by the terminal: the attribute it names takes the value
\* it carries; the padding NUL is ignored
Interpret(t, e) ==
    CASE e.cmd = "?25h" -> [t EXCEPT !.F.SHOW = 1]
      [] e.cmd = "?25l" -> [t EXCEPT !.F.SHOW = 0]
      [] e.cmd = "?12h" -> [t EXCEPT !.F.BLINK = 1]
      [] e.cmd = "?12l" -> [t EXCEPT !.F.BLINK = 0]
      [] e.cmd = "q"    -> [t EXCEPT !.F.SHAPE = e.args[1]]
      [] e.cmd = "1m"   -> [t EXCEPT !.F.BOLD = 1]
      [] e.cmd = "22m"  -> [t EXCEPT !.F.BOLD = 0]
      [] e.cmd = "4m"   -> [t EXCEPT !.F.UNDER = 1]
      [] e.cmd = "24m"  -> [t EXCEPT !.F.UNDER = 0]
      [] e.cmd = "7m"   -> [t EXCEPT !.F.NEG = 1]
      [] e.cmd = "27m"  -> [t EXCEPT !.F.NEG = 0]
      [] e.cmd = "38;2" -> [t EXCEPT !.F.R = e.args[1], !.F.G = e.args[2],
                                     !.F.B = e.args[3]]
      [] e.cmd = "48;2" -> [t EXCEPT !.B.R = e.args[1], !.B.G = e.args[2],
                                     !.B.B = e.args[3]]
      [] OTHER          -> t

\* The terminal after it has read the sequences of Buff in order
RECURSIVE InterpretAll(_, _)
InterpretAll(t, Buff) ==
    IF Buff = <<>> THEN t
    ELSE InterpretAll(Interpret(t, Head(Buff)), Tail(Buff))

\* The colour pairs and the cursors handed to the methods as arguments
ColorPairs == { [F |-> f, B |-> k] : f \in Palette, k \in Palette }
AttrTargets ==
    { d \in CursorData :
        /\ d.F.BLINK = d.F.SHOW /\ d.F.UNDER = d.F.BOLD
        /\ (d.F.SHAPE = 0) = (d.F.NEG = 0)
        /\ (d.F.R = 0) = (d.B.R = 0) }

\* A cursor right after apply(buf): the terminal has read buf, so its
\* attribute state is the tracked state
InitAttr ==
    /\ cu \in CursorData
    /\ tm = cu
    /\ cuTarget = IdleCursor
    /\ cuBuf = apply([F |-> cu.F, B |-> cu.B, Buff |-> <<>>]).Buff
    /\ cuMark = 0
    /\ cuPrev = IdleCursor
    /\ cuOp = 0
    /\ ic = IdleInput /\ icPrev = IdleInput /\ icKey = "none" /\ icCall = NoCall
    /\ dd = IdleDir /\ ddPrev = IdleDir /\ ddOp = "construct"
    /\ sb = IdleBar /\ bx = IdleBox
    /\ ft = IdleWidget /\ mb = IdleWidget
    /\ bb = IdleWidget /\ pb = IdleWidget

\* One buffer-emitting call on the cursor: r is the cursor and the buffer the
\* call leaves, starting from an empty buffer; the terminal reads the buffer
AttrStep(r) ==
    /\ cu' = [F |-> r.F, B |-> r.B]
    /\ cuBuf' = r.Buff
    /\ tm' = InterpretAll(tm, r.Buff)
    /\ UNCHANGED <<cuTarget, cuMark, cuPrev, cuOp, icVars, ddVars, sbVars, bxVars, wgVars>>

\* The cursor with an empty buffer
Cursor0 == [F |-> cu.F, B |-> cu.B, Buff |-> <<>>]

SetBit == \E a \in AttrBits, v \in Bits : AttrStep(set_bit(Cursor0, a, v))
UpdateBit == \E a \in AttrBits, v \in Bits : AttrStep(update_bit(Cursor0, a, v))
SetShapeTo == \E sh \in Shapes : AttrStep(set_shape(Cursor0, sh))
UpdateShapeTo == \E sh \in Shapes : AttrStep(update_shape(Cursor0, sh))
SetColors ==
    \E COLOR \in ColorPairs :
        \/ AttrStep(set_back_rgb(Cursor0, COLOR.B))
        \/ AttrStep(set_front_rgb(Cursor0, COLOR.F))
        \/ AttrStep(set_colors(Cursor0, COLOR))
        \/ AttrStep(set_mirror_colors(Cursor0, COLOR))
UpdateColors ==
    \E COLOR \in ColorPairs :
        \/ AttrStep(update_back_rgb(Cursor0, COLOR.B))
        \/ AttrStep(update_front_rgb(Cursor0, COLOR.F))
        \/ AttrStep(update_colors(Cursor0, COLOR))
        \/ AttrStep(update_mirror(Cursor0, COLOR))
SetTo == \E Rhs \in AttrTargets : AttrStep(set_to(Cursor0, Rhs))
UpdateToRhs == \E Rhs \in AttrTargets : AttrStep(update_to(Cursor0, Rhs))
ApplyMirror == AttrStep(apply_mirror(Cursor0))


(***************************************************************************)
(*                     D i r e c t o r y D i s p l a y B o x               *)
(***************************************************************************)

\* DirectoryDisplayBox::LeftColumnSize
LeftColumnSize == 14
\* Bounds of the list model: the most items added, the tallest Area and the
\* width of the right column (Area.num_cols() - LeftColumnSize - 3).
MaxItems == 3
MaxAreaRows == 3
RightCols == 2

\* ---------------- code units and std::format ----------------------------
DigitChars == <<"0", "1", "2", "3", "4", "5", "6", "7", "8", "9">>
Digit(n) == DigitChars[n + 1]
\* std::format {:0>3d} and {:0>4d}
Fmt3(n) == <<Digit((n \div 100) % 10), Digit((n \div 10) % 10), Digit(n % 10)>>
\* The decimal digits of an unsigned, held here as the int of the same 32
\* bits: n < 0 stands for 2^32 + n = 4294 * 10^6 + 967296 + n.  {:0>4d} pads
\* the digits with zeros on the left up to four code units and never cuts a
\* longer number
RECURSIVE Decimal(_)
Decimal(n) ==
    IF n < 0
    THEN LET low == Decimal((967296 + n) % 1000000)
         IN  Decimal(4294 + ((967296 + n) \div 1000000))
             \o Rep(6 - Len(low), "0") \o low
    ELSE IF n < 10 THEN <<Digit(n)>>
    ELSE Append(Decimal(n \div 10), Digit(n % 10))
Fmt4(n) == Rep(Max(4 - Len(Decimal(n)), 0), "0") \o Decimal(n)

\* SetFrontColor / SetBackColor (ConsoleCMD.h), as code units
FrontColorUnits(R, G, B) ==
    <<"ESC", "[", "3", "8", ";", "2", ";">> \o Fmt3(R) \o <<";">> \o Fmt3(G)
        \o <<";">> \o Fmt3(B) \o <<"m">>
BackColorUnits(R, G, B) ==
    <<"ESC", "[", "4", "8", ";", "2", ";">> \o Fmt3(R) \o <<";">> \o Fmt3(G)
        \o <<";">> \o Fmt3(B) \o <<"m">>
\* color::apply(Buffer): F.setFront then B.setBack
ColorApply(C) ==
    FrontColorUnits(C.F.r, C.F.g, C.F.b) \o BackColorUnits(C.B.r, C.B.g, C.B.b)
\* SetPos(Buff, Row, Col)
SetPosUnits(Row, Col) == <<"ESC", "[">> \o Fmt4(Row) \o <<";">> \o Fmt4(Col) \o <<"H">>
\* MoveLeft(Buff, Count)
MoveLeftUnits(Count) == <<"ESC", "[">> \o Fmt4(Count) \o <<"D">>
\* MoveDown(Buff)
MoveDownUnits == <<"ESC", "[", "B">>

\* colors.h: the list colour pairs
ListColors == [F |-> [r |-> 255, g |-> 255, b |-> 255], B |-> [r |-> 32, g |-> 32, b |-> 32]]
ListFocusColors == [F |-> [r |-> 255, g |-> 255, b |-> 255], B |-> [r |-> 77, g |-> 77, b |-> 77]]
ListSelectColors == [F |-> [r |-> 255, g |-> 255, b |-> 255], B |-> [r |-> 119, g |-> 119, b |-> 119]]
ListSelectFocusColors == [F |-> [r |-> 255, g |-> 255, b |-> 255], B |-> [r |-> 135, g |-> 135, b |-> 135]]

\* ConsoleCMD.h: LLQUOTE[1], RRQUOTE[1] (one code unit each)
LLQUOTE == <<"LLQUOTE">>
RRQUOTE == <<"RRQUOTE">>

\* s.append(n - Len(s), 0) when s is shorter than n
PadNul(s, n) == IF Len(s) < n THEN s \o Rep(n - Len(s), "NUL") ELSE s

\* ---------------- std::wstring / std::wstring_view ----------------------
\* substr(pos, count) for pos <= size (count is clipped to the end)
Substr(s, pos, count) == SubSeq(s, pos + 1, pos + Min(count, Len(s) - pos))
\* substr throws std::out_of_range when pos > size
SubstrThrows(s, pos) == pos > Len(s)
\* replace(pos, n, str) for pos <= size
Replace(s, pos, n, str) ==
    SubSeq(s, 1, pos) \o str \o SubSeq(s, pos + Min(n, Len(s) - pos) + 1, Len(s))
\* s[pos] = c
SetAt(s, pos, c) == [s EXCEPT ![pos + 1] = c]

\* The text an item of n code units carries: n distinct letters
Alphabet == <<"a", "b", "c", "d", "e", "f", "g", "h", "i", "j", "k", "l", "m",
              "n", "o", "p", "q", "r", "s", "t", "u", "v", "w", "x", "y", "z">>
ItemText(n) == SubSeq(Alphabet, 1, n)
\* The lengths of the items added: shorter than the left column, exactly the
\* left column, and two code units longer than both columns
ItemLengths == {LeftColumnSize - 1, LeftColumnSize, LeftColumnSize + RightCols + 2}

\* Area.num_rows() - 1
NumLinesOf(d) == d.AreaRows - 1

\* entries of TempBuffer: the draw and position commands appended to it
Cmd(c, a, b) == [cmd |-> c, a |-> a, b |-> b]
\* vScroll.draw(TempBuffer, First, Num) / hScroll.draw(TempBuffer, First, Num)
vScrollDraw(d, First, Num) ==
    [d EXCEPT !.TempBuffer = Append(d.TempBuffer, Cmd("vScroll.draw", First, Num))]
hScrollDraw(d, First, Num) ==
    [d EXCEPT !.TempBuffer = Append(d.TempBuffer, Cmd("hScroll.draw", First, Num))]
\* Area.Top.offset(Row, 0).apply(TempBuffer)
ApplyPos(d, Row) ==
    [d EXCEPT !.TempBuffer = Append(d.TempBuffer, Cmd("SetPos", Row, 0))]
\* TempBuffer.clear()
ClearTemp(d) == [d EXCEPT !.TempBuffer = <<>>]
\* mz::Write(TempBuffer)
WriteTemp(d) ==
    [d EXCEPT !.writes = Append(d.writes,
                  [buf |-> "TempBuffer", cmds |-> d.TempBuffer, from |-> 0, len |-> 0])]
\* mz::Write(std::wstring_view(bf).substr(pos, count)); substr past the end
\* of bf throws in a noexcept function
WriteRows(d, pos, count) ==
    IF SubstrThrows(d.bf, pos) THEN [d EXCEPT !.thrown = TRUE]
    ELSE [d EXCEPT !.writes = Append(d.writes,
                  [buf |-> "bf", cmds |-> <<>>, from |-> pos,
                   len |-> Min(count, Len(d.bf) - pos)])]

\* The marker inserted in front of the row instead of replacing the row's
\* marker (a faulty variant, for comparison)
PatchMarkerInsert(d, Index, Comm) ==
    [d EXCEPT !.bf = Replace(d.bf, Index * d.TextLineLength, 0, Comm)]

\* bf.replace(Index * TextLineLength, Comm.size(), Comm)
PatchMarker(d, Index, Comm) ==
    IF Index * d.TextLineLength > Len(d.bf) THEN [d EXCEPT !.thrown = TRUE]
    ELSE [d EXCEPT !.bf = Replace(d.bf, Index * d.TextLineLength, Len(Comm), Comm)]

\* "Unmark current focus": the selected or the plain marker on row FocusIndex
UnmarkFocus(d) ==
    IF d.NameColumns[d.FocusIndex + 1].Selected
    THEN PatchMarker(d, d.FocusIndex, d.CommSelect)
    ELSE PatchMarker(d, d.FocusIndex, d.CommInit)

\* The focus marker written on row FocusIndex whether the item is selected or
\* not (a faulty variant, for comparison)
MarkFocusPlain(d) == PatchMarker(d, d.FocusIndex, d.CommFocus)

\* "Mark new focus": the selected+focus or the focus marker on row FocusIndex
MarkFocus(d) ==
    IF d.NameColumns[d.FocusIndex + 1].Selected
    THEN PatchMarker(d, d.FocusIndex, d.CommBoth)
    ELSE PatchMarker(d, d.FocusIndex, d.CommFocus)

\* name_column::size()
ColSize(col) == col.EndOffset - col.BeginOffset

\* A DirectoryDisplayBox constructed with an Area of rows x cols
DirConstruct(rows, cols) ==
    [phase |-> "new", AreaRows |-> rows, AreaCols |-> cols,
     RightColumnSize |-> 0, NameContainer |-> <<>>, NameColumns |-> <<>>,
     TopIndex |-> 0, FocusIndex |-> 0,
     offsetLeftSign |-> 0, offsetColumn2 |-> 0, offsetRightSign |-> 0,
     TextLineLength |-> 0, NumIndexes |-> 0,
     CommInit |-> <<>>, CommFocus |-> <<>>, CommSelect |-> <<>>, CommBoth |-> <<>>,
     CommReturn |-> <<>>, TempBuffer |-> <<>>, bf |-> <<>>,
     writes |-> <<>>, ret |-> 0, slept |-> FALSE, thrown |-> FALSE]

\* DirectoryDisplayBox::initialize
initialize(d) ==
    LET R == d.AreaCols - LeftColumnSize - 3
        ci == ColorApply(ListColors)
        cf == ColorApply(ListFocusColors)
        cs == ColorApply(ListSelectColors)
        cb == ColorApply(ListSelectFocusColors)
        ColorLength == Max(Max(Max(Len(ci), Len(cb)), Len(cf)), Len(cs))
        tb == SetPosUnits(1, 1)
        cr == MoveLeftUnits(LeftColumnSize + R + 2) \o MoveDownUnits
        MoveLength == Max(Len(tb), Len(cr))
        CommInit == PadNul(ci, ColorLength)
        CommReturn == PadNul(cr, MoveLength)
        b1 == CommInit \o Rep(LeftColumnSize, " ")
        b2 == b1 \o LLQUOTE
        b3 == b2 \o Rep(R, " ")
        b4 == b3 \o RRQUOTE \o CommReturn
    IN  [d EXCEPT !.phase = "init",
                  !.RightColumnSize = R,
                  !.CommInit = CommInit,
                  !.CommBoth = PadNul(cb, ColorLength),
                  !.CommFocus = PadNul(cf, ColorLength),
                  !.CommSelect = PadNul(cs, ColorLength),
                  !.TempBuffer = <<Cmd("SetPos", 0, 0)>>,
                  !.CommReturn = CommReturn,
                  !.NameContainer = <<>>,
                  !.offsetLeftSign = Len(b1),
                  !.offsetColumn2 = Len(b2),
                  !.offsetRightSign = Len(b3),
                  !.TextLineLength = Len(b4),
                  !.bf = <<>>]

\* DirectoryDisplayBox::add_item(sv)
add_item(d, sv) ==
    LET ColumnSizes == LeftColumnSize + d.RightColumnSize
        col == [FirstIndex |-> LeftColumnSize, BeginOffset |-> Len(d.NameContainer),
                EndOffset |-> 0, Selected |-> FALSE]
        d1 == [d EXCEPT !.NumIndexes = d.NumIndexes + 1,
                        !.NameColumns = Append(d.NameColumns, col),
                        !.bf = d.bf \o d.CommInit \o Substr(sv, 0, LeftColumnSize)
                                    \o <<" ">>]
        n == Len(d1.NameColumns)
    IN  IF d.CommReturn = <<>> THEN [d EXCEPT !.thrown = TRUE]
        ELSE IF Len(sv) <= ColumnSizes
        THEN IF SubstrThrows(sv, LeftColumnSize)
             THEN [d1 EXCEPT !.thrown = TRUE]
             ELSE LET b1 == d1.bf \o Substr(sv, LeftColumnSize, Len(sv) - LeftColumnSize)
                      b2 == IF Len(sv) < ColumnSizes
                            THEN b1 \o Rep(ColumnSizes - Len(sv), " ") ELSE b1
                  IN  [d1 EXCEPT !.bf = b2 \o <<" ">> \o d.CommReturn,
                                 !.NameColumns[n].EndOffset = Len(d1.NameContainer)]
        ELSE LET nc == d1.NameContainer
                        \o Substr(sv, LeftColumnSize, Len(sv) - LeftColumnSize)
             IN  [d1 EXCEPT !.bf = d1.bf \o Substr(sv, LeftColumnSize, d.RightColumnSize)
                                       \o RRQUOTE \o d.CommReturn,
                            !.NameContainer = nc,
                            !.NameColumns[n].EndOffset = Len(nc)]

\* create(): the empty rows appended for i = NumIndexes .. NumLines - 1
RECURSIVE FillEmptyRows(_, _)
FillEmptyRows(d, i) ==
    IF i < NumLinesOf(d)
    THEN FillEmptyRows(
             [d EXCEPT !.NameColumns = Append(d.NameColumns,
                           [FirstIndex |-> LeftColumnSize,
                            BeginOffset |-> Len(d.NameContainer),
                            EndOffset |-> Len(d.NameContainer),
                            Selected |-> FALSE]),
                       !.bf = d.bf \o d.CommInit
                                   \o Rep(LeftColumnSize + d.RightColumnSize + 2, " ")
                                   \o d.CommReturn],
             i + 1)
    ELSE d

\* DirectoryDisplayBox::create
create(d) ==
    LET d1 == FillEmptyRows([d EXCEPT !.TopIndex = 0, !.FocusIndex = 0], d.NumIndexes)
        d2 == IF d1.NumIndexes > 0
              THEN [d1 EXCEPT !.bf = Replace(d1.bf, 0, Len(d1.CommFocus), d1.CommFocus)]
              ELSE d1
    IN  [d2 EXCEPT !.phase = "ready"]

\* The state an operation starts from: the record of its terminal writes,
\* its pause and its return value are those of this call only
Begin(d) == [d EXCEPT !.writes = <<>>, !.slept = FALSE, !.ret = 0]

\* std::this_thread::sleep_for(100 ms)
Sleep(d) == [d EXCEPT !.slept = TRUE]

\* the horizontal scrollbar drawn for the item at Index
hScrollItem(d, Index) ==
    hScrollDraw(d, d.NameColumns[Index + 1].FirstIndex - LeftColumnSize,
                ColSize(d.NameColumns[Index + 1]))

\* page_up: FocusIndex > TopIndex, the focus moves to the top visible row
PageUpToTop(d) ==
    LET t0 == ClearTemp(d)
        t1 == IF ColSize(d.NameColumns[d.FocusIndex + 1]) # 0
                 \/ ColSize(d.NameColumns[d.TopIndex + 1]) # 0
              THEN hScrollItem(t0, d.TopIndex) ELSE t0
        t2 == UnmarkFocus(t1)
        t3 == WriteRows(WriteTemp(ApplyPos(t2, t2.FocusIndex - t2.TopIndex)),
                        t2.TextLineLength * t2.FocusIndex, t2.TextLineLength)
        t4 == MarkFocus([t3 EXCEPT !.FocusIndex = t3.TopIndex])
    IN  WriteRows(WriteTemp(ApplyPos(ClearTemp(t4), 0)),
                  t4.TextLineLength * t4.FocusIndex, t4.TextLineLength)

\* page_up: TopIndex > 0, the window scrolls up a page
PageUpScroll(d, NumPrintIndex) ==
    LET u1 == UnmarkFocus(d)
        top == Max(0, u1.TopIndex - (u1.AreaRows - 1))
        u2 == MarkFocus([u1 EXCEPT !.TopIndex = top, !.FocusIndex = top])
        u3 == hScrollItem(vScrollDraw(ClearTemp(u2), u2.TopIndex, u2.NumIndexes),
                          u2.FocusIndex)
    IN  WriteRows(WriteTemp(ApplyPos(u3, 0)),
                  u3.TextLineLength * u3.TopIndex, u3.TextLineLength * NumPrintIndex)

\* DirectoryDisplayBox::page_up
page_up(d0) ==
    LET d == Begin(d0)
        NumPrintIndex == Min(d.AreaRows - 1, d.NumIndexes)
        r == IF d.FocusIndex > d.TopIndex THEN PageUpToTop(d)
             ELSE IF d.TopIndex > 0 THEN PageUpScroll(d, NumPrintIndex)
             ELSE Sleep(d)
    IN  IF d.NumIndexes = 0 THEN [d EXCEPT !.ret = -1]
        ELSE [r EXCEPT !.ret = r.FocusIndex]

\* page_down: FocusIndex < BottomIndex, the focus moves to the bottom row
PageDownToBottom(d, BottomIndex) ==
    LET t0 == ClearTemp(d)
        t1 == IF ColSize(d.NameColumns[d.FocusIndex + 1]) # 0
                 \/ ColSize(d.NameColumns[BottomIndex + 1]) # 0
              THEN hScrollItem(t0, BottomIndex) ELSE t0
        t2 == UnmarkFocus(t1)
        t3 == WriteRows(WriteTemp(ApplyPos(t2, t2.FocusIndex - t2.TopIndex)),
                        t2.TextLineLength * t2.FocusIndex, t2.TextLineLength)
        t4 == MarkFocus([t3 EXCEPT !.FocusIndex = BottomIndex])
    IN  WriteRows(WriteTemp(ApplyPos(ClearTemp(t4), BottomIndex - t4.TopIndex)),
                  t4.TextLineLength * t4.FocusIndex, t4.TextLineLength)

\* page_down's scroll with the window moved down a whole page, not held at
\* the end of the list (a faulty variant, for comparison)
PageDownScrollPastEnd(d, Bottom0) ==
    LET u1 == UnmarkFocus(d)
        BottomIndex == Min(Bottom0 + u1.AreaRows - 2, u1.NumIndexes - 1)
        u2 == MarkFocus([u1 EXCEPT !.FocusIndex = BottomIndex])
        u3 == [u2 EXCEPT !.TopIndex = Bottom0]
        u4 == hScrollItem(vScrollDraw(ClearTemp(u3), u3.TopIndex, u3.NumIndexes),
                          u3.FocusIndex)
    IN  WriteRows(WriteTemp(ApplyPos(u4, 0)),
                  u4.TextLineLength * u4.TopIndex,
                  u4.TextLineLength * (u4.AreaRows - 1))

\* page_down: BottomIndex < NumIndexes - 1, the window scrolls down a page
PageDownScroll(d, Bottom0) ==
    LET u1 == UnmarkFocus(d)
        BottomIndex == Min(Bottom0 + u1.AreaRows - 2, u1.NumIndexes - 1)
        u2 == MarkFocus([u1 EXCEPT !.FocusIndex = BottomIndex])
        top == Max(0, BottomIndex - (u2.AreaRows - 2))
        u3 == [u2 EXCEPT !.TopIndex = top]
        NumPrintIndex == BottomIndex - u3.TopIndex + 1
        u4 == hScrollItem(vScrollDraw(ClearTemp(u3), u3.TopIndex, u3.NumIndexes),
                          u3.FocusIndex)
    IN  WriteRows(WriteTemp(ApplyPos(u4, 0)),
                  u4.TextLineLength * u4.TopIndex, u4.TextLineLength * NumPrintIndex)

\* page_down that scrolls whenever items remain below the window (a faulty
\* variant, for comparison)
page_down_eager(d0) ==
    LET d == Begin(d0)
        BottomIndex == Min(d.TopIndex + d.AreaRows - 2, d.NumIndexes - 1)
        r == IF BottomIndex < d.NumIndexes - 1 THEN PageDownScroll(d, BottomIndex)
             ELSE Sleep(d)
    IN  IF d.NumIndexes = 0 THEN [d EXCEPT !.ret = -1]
        ELSE [r EXCEPT !.ret = r.FocusIndex]

\* DirectoryDisplayBox::page_down
page_down(d0) ==
    LET d == Begin(d0)
        BottomIndex == Min(d.TopIndex + d.AreaRows - 2, d.NumIndexes - 1)
        r == IF d.FocusIndex < BottomIndex THEN PageDownToBottom(d, BottomIndex)
             ELSE IF BottomIndex < d.NumIndexes - 1 THEN PageDownScroll(d, BottomIndex)
             ELSE Sleep(d)
    IN  IF d.NumIndexes = 0 THEN [d EXCEPT !.ret = -1]
        ELSE [r EXCEPT !.ret = r.FocusIndex]

\* move_up that writes two rows even when it scrolls (a faulty variant, for
\* comparison)
MoveUpStepTwoRows(d) ==
    LET m1 == UnmarkFocus(d)
        m2 == ClearTemp(MarkFocus([m1 EXCEPT !.FocusIndex = m1.FocusIndex - 1]))
        m3 == IF m2.TopIndex > m2.FocusIndex
              THEN vScrollDraw([m2 EXCEPT !.TopIndex = m2.FocusIndex],
                               m2.FocusIndex, m2.NumIndexes)
              ELSE m2
    IN  WriteRows(WriteTemp(ApplyPos(m3, m3.FocusIndex - m3.TopIndex)),
                  m3.TextLineLength * m3.FocusIndex, m3.TextLineLength * 2)

\* move_up: FocusIndex > 0
MoveUpStep(d) ==
    LET m1 == UnmarkFocus(d)
        m2 == ClearTemp(MarkFocus([m1 EXCEPT !.FocusIndex = m1.FocusIndex - 1]))
        scroll == m2.TopIndex > m2.FocusIndex
        m3 == IF scroll
              THEN vScrollDraw([m2 EXCEPT !.TopIndex = m2.FocusIndex],
                               m2.FocusIndex, m2.NumIndexes)
              ELSE m2
        NumPrintIndex == IF scroll THEN m3.AreaRows - 1 ELSE 2
        m4 == IF ColSize(m3.NameColumns[m3.FocusIndex + 2]) # 0
                 \/ ColSize(m3.NameColumns[m3.FocusIndex + 1]) # 0
              THEN hScrollItem(m3, m3.FocusIndex) ELSE m3
    IN  WriteRows(WriteTemp(ApplyPos(m4, m4.FocusIndex - m4.TopIndex)),
                  m4.TextLineLength * m4.FocusIndex, m4.TextLineLength * NumPrintIndex)

\* move_up that wraps from the first item to the last (a faulty variant, for
\* comparison)
move_up_wrapping(d0) ==
    LET d == Begin(d0)
        r == IF d.FocusIndex > 0 THEN MoveUpStep(d)
             ELSE [d EXCEPT !.FocusIndex = d.NumIndexes - 1]
    IN  IF d.NumIndexes = 0 THEN [d EXCEPT !.ret = -1]
        ELSE [r EXCEPT !.ret = r.FocusIndex]

\* DirectoryDisplayBox::move_up
move_up(d0) ==
    LET d == Begin(d0)
        r == IF d.FocusIndex > 0 THEN MoveUpStep(d) ELSE Sleep(d)
    IN  IF d.NumIndexes = 0 THEN [d EXCEPT !.ret = -1]
        ELSE [r EXCEPT !.ret = r.FocusIndex]

\* move_down without the scroll of TopIndex (a faulty variant, for comparison)
MoveDownStepNoScroll(d) ==
    LET m1 == UnmarkFocus(d)
        m2 == ClearTemp(MarkFocus([m1 EXCEPT !.FocusIndex = m1.FocusIndex + 1]))
    IN  WriteRows(WriteTemp(ApplyPos(m2, d.FocusIndex - m2.TopIndex)),
                  m2.TextLineLength * d.FocusIndex, m2.TextLineLength * 2)

\* move_down: FocusIndex + 1 < NumIndexes
MoveDownStep(d) ==
    LET m1 == UnmarkFocus(d)
        m2 == ClearTemp(MarkFocus([m1 EXCEPT !.FocusIndex = m1.FocusIndex + 1]))
        scroll == m2.FocusIndex - m2.TopIndex >= m2.AreaRows - 1
        m3 == IF scroll
              THEN vScrollDraw([m2 EXCEPT !.TopIndex = m2.TopIndex + 1],
                               m2.TopIndex + 1, m2.NumIndexes)
              ELSE m2
        TopPrintIndex == IF scroll THEN m3.TopIndex ELSE d.FocusIndex
        NumPrintIndex == IF scroll THEN m3.AreaRows - 1 ELSE 2
        m4 == IF ColSize(m3.NameColumns[m3.FocusIndex]) # 0
                 \/ ColSize(m3.NameColumns[m3.FocusIndex + 1]) # 0
              THEN hScrollItem(m3, m3.FocusIndex) ELSE m3
    IN  WriteRows(WriteTemp(ApplyPos(m4, TopPrintIndex - m4.TopIndex)),
                  m4.TextLineLength * TopPrintIndex, m4.TextLineLength * NumPrintIndex)

\* DirectoryDisplayBox::move_down
move_down(d0) ==
    LET d == Begin(d0)
        r == IF d.FocusIndex + 1 < d.NumIndexes THEN MoveDownStep(d) ELSE Sleep(d)
    IN  [r EXCEPT !.ret = r.FocusIndex]

\* DirectoryDisplayBox::swap_select
swap_select(d0) ==
    LET d == Begin(d0)
        f == d.FocusIndex + 1
        s1 == [d EXCEPT !.NameColumns[f].Selected = ~d.NameColumns[f].Selected]
        s2 == IF s1.NameColumns[f].Selected
              THEN PatchMarker(s1, s1.FocusIndex, s1.CommBoth)
              ELSE PatchMarker(s1, s1.FocusIndex, s1.CommFocus)
        s3 == WriteRows(WriteTemp(ApplyPos(ClearTemp(s2), s2.FocusIndex - s2.TopIndex)),
                        s2.TextLineLength * s2.FocusIndex, s2.TextLineLength)
    IN  [s3 EXCEPT !.ret = IF s3.NameColumns[f].Selected THEN 1 ELSE 0]

\* move_left / move_right: the right column of the focused row rewritten with
\* RightColumnSize code units of the item from FirstIndex on
PatchRightColumn(d) ==
    LET item == d.NameColumns[d.FocusIndex + 1]
        sv == Substr(d.NameContainer, item.BeginOffset, item.EndOffset)
    IN  [d EXCEPT !.bf = Replace(d.bf, d.TextLineLength * d.FocusIndex + d.offsetColumn2,
                                 d.RightColumnSize,
                                 Substr(sv, item.FirstIndex - LeftColumnSize,
                                        d.RightColumnSize))]

\* move_left / move_right: the scrollbar redrawn and the focused row written
RenderFocusedRow(d, ItemSize) ==
    LET item == d.NameColumns[d.FocusIndex + 1]
        r1 == hScrollDraw(ClearTemp(d), item.FirstIndex - LeftColumnSize,
                          ItemSize - LeftColumnSize)
    IN  WriteRows(WriteTemp(ApplyPos(r1, r1.FocusIndex - r1.TopIndex)),
                  r1.TextLineLength * r1.FocusIndex, r1.TextLineLength)

\* move_left that leaves the left indicator on the row when the item is back
\* at its leftmost position (a faulty variant, for comparison)
move_left_keeping_indicator(d0) ==
    LET d == Begin(d0)
        f == d.FocusIndex + 1
        item == d.NameColumns[f]
        ItemSize == item.EndOffset - item.BeginOffset + LeftColumnSize
        l1 == [d EXCEPT !.NameColumns[f].FirstIndex = item.FirstIndex - 1]
        l3 == PatchRightColumn(l1)
        l4 == [l3 EXCEPT !.bf = SetAt(l3.bf, l3.TextLineLength * l3.FocusIndex
                                             + l3.offsetRightSign, RRQUOTE[1])]
    IN  IF d.NumIndexes = 0 THEN d
        ELSE IF item.FirstIndex > LeftColumnSize THEN RenderFocusedRow(l4, ItemSize)
        ELSE d

\* DirectoryDisplayBox::move_left
move_left(d0) ==
    LET d == Begin(d0)
        f == d.FocusIndex + 1
        item == d.NameColumns[f]
        ItemSize == item.EndOffset - item.BeginOffset + LeftColumnSize
        l1 == [d EXCEPT !.NameColumns[f].FirstIndex = item.FirstIndex - 1]
        l2 == IF l1.NameColumns[f].FirstIndex = LeftColumnSize
              THEN [l1 EXCEPT !.bf = SetAt(l1.bf, l1.TextLineLength * l1.FocusIndex
                                                  + l1.offsetLeftSign, " ")]
              ELSE l1
        l3 == PatchRightColumn(l2)
        l4 == [l3 EXCEPT !.bf = SetAt(l3.bf, l3.TextLineLength * l3.FocusIndex
                                             + l3.offsetRightSign, RRQUOTE[1])]
    IN  IF d.NumIndexes = 0 THEN d
        ELSE IF item.FirstIndex > LeftColumnSize THEN RenderFocusedRow(l4, ItemSize)
        ELSE d

\* DirectoryDisplayBox::move_right
move_right(d0) ==
    LET d == Begin(d0)
        f == d.FocusIndex + 1
        item == d.NameColumns[f]
        ItemSize == item.EndOffset - item.BeginOffset + LeftColumnSize
        MaxFirstIndex == ItemSize - d.RightColumnSize
        r1 == [d EXCEPT !.NameColumns[f].FirstIndex = item.FirstIndex + 1]
        r2 == [r1 EXCEPT !.bf = SetAt(r1.bf, r1.TextLineLength * r1.FocusIndex
                                             + r1.offsetLeftSign, LLQUOTE[1])]
        r3 == PatchRightColumn(r2)
        r4 == IF r3.NameColumns[f].FirstIndex = MaxFirstIndex
              THEN [r3 EXCEPT !.bf = SetAt(r3.bf, r3.TextLineLength * r3.FocusIndex
                                                  + r3.offsetRightSign, " ")]
              ELSE r3
    IN  IF d.NumIndexes = 0 THEN d
        ELSE IF item.FirstIndex < MaxFirstIndex THEN RenderFocusedRow(r4, ItemSize)
        ELSE d

\* squeeze: the loop over ReadIndex that moves the rows of the selected items
\* of bf up to WriteIndex; NameColumns is left as it is
RECURSIVE SqueezeLoop(_, _, _)
SqueezeLoop(d, ReadIndex, WriteIndex) ==
    IF ReadIndex < d.NumIndexes
    THEN IF d.NameColumns[ReadIndex + 1].Selected
         THEN LET d1 == IF d.FocusIndex = ReadIndex
                        THEN PatchMarker([d EXCEPT !.FocusIndex = WriteIndex],
                                         ReadIndex, d.CommSelect)
                        ELSE d
                  sv == Substr(d1.bf, d1.TextLineLength * ReadIndex, d1.TextLineLength)
                  d2 == IF ReadIndex # WriteIndex
                        THEN [d1 EXCEPT !.bf = Replace(d1.bf, d1.TextLineLength * WriteIndex,
                                                       d1.TextLineLength, sv)]
                        ELSE d1
              IN  SqueezeLoop(d2, ReadIndex + 1, WriteIndex + 1)
         ELSE SqueezeLoop(d, ReadIndex + 1, WriteIndex)
    ELSE [d EXCEPT !.NumIndexes = WriteIndex]

\* squeeze: the empty rows appended to bf for i = NumIndexes .. NumLines - 1
RECURSIVE SqueezeFill(_, _)
SqueezeFill(d, i) ==
    IF i < NumLinesOf(d)
    THEN SqueezeFill([d EXCEPT !.bf = d.bf \o d.CommInit
                                    \o Rep(LeftColumnSize + d.RightColumnSize + 2, " ")
                                    \o d.CommReturn],
                     i + 1)
    ELSE d

\* DirectoryDisplayBox::squeeze
squeeze(d0) ==
    LET d1 == SqueezeLoop(Begin(d0), 0, 0)
        d2 == [d1 EXCEPT !.bf = SubSeq(d1.bf, 1, d1.TextLineLength * d1.NumIndexes)]
        d3 == SqueezeFill(d2, d2.NumIndexes)
    IN  [d3 EXCEPT !.TopIndex = 0, !.FocusIndex = 0]

\* DirectoryDisplayBox::get_selection_count
get_selection_count(d) ==
    Cardinality({ i \in 0..(d.NumIndexes - 1) : d.NameColumns[i + 1].Selected })

\* ---------------- the list's actions ------------------------------------
\* A constructed box whose Area has at least two rows: one row for the
\* horizontal scrollbar and Area.num_rows() - 1 >= 1 visible rows
InitDir ==
    /\ \E rows \in 2..MaxAreaRows :
           dd = DirConstruct(rows, LeftColumnSize + 3 + RightCols)
    /\ ddPrev = [Begin(dd) EXCEPT !.TempBuffer = <<>>]
    /\ ddOp = "construct"
    /\ ic = IdleInput /\ icPrev = IdleInput /\ icKey = "none" /\ icCall = NoCall
    /\ cu = IdleCursor /\ cuTarget = IdleCursor /\ cuPrev = IdleCursor
    /\ cuBuf = <<>> /\ cuMark = 0 /\ cuOp = 0
    /\ sb = IdleBar /\ bx = IdleBox
    /\ tm = IdleWidget /\ ft = IdleWidget /\ mb = IdleWidget
    /\ bb = IdleWidget /\ pb = IdleWidget

\* ddOp names the last call and ddPrev holds the data members as that call
\* found them (TempBuffer is cleared by every call before it is used)
DirStep(op, next) ==
    /\ ddOp' = op
    /\ ddPrev' = [Begin(dd) EXCEPT !.TempBuffer = <<>>]
    /\ dd' = next
    /\ UNCHANGED <<icVars, cuVars, sbVars, bxVars, tmVars, wgVars>>

Initialize == dd.phase = "new" /\ DirStep("initialize", initialize(dd))
AddItem ==
    /\ dd.phase = "init" /\ ~dd.thrown /\ dd.NumIndexes < MaxItems
    /\ \E n \in ItemLengths : DirStep("add_item", add_item(dd, ItemText(n)))
Create == dd.phase = "init" /\ ~dd.thrown /\ DirStep("create", create(dd))
Ready == dd.phase = "ready" /\ ~dd.thrown
MoveUp == Ready /\ DirStep("move_up", move_up(dd))
MoveDown == Ready /\ DirStep("move_down", move_down(dd))
PageUp == Ready /\ DirStep("page_up", page_up(dd))
PageDown == Ready /\ DirStep("page_down", page_down(dd))
SwapSelect == Ready /\ DirStep("swap_select", swap_select(dd))
MoveLeft == Ready /\ DirStep("move_left", move_left(dd))
MoveRight == Ready /\ DirStep("move_right", move_right(dd))
Squeeze == Ready /\ DirStep("squeeze", squeeze(dd))

NextDir ==
    \/ Initialize \/ AddItem \/ Create
    \/ MoveUp \/ MoveDown \/ PageUp \/ PageDown
    \/ SwapSelect \/ MoveLeft \/ MoveRight

(***************************************************************************)
(*                     S c r o l l b a r s  (WindowBox.h)                  *)
(***************************************************************************)

\* Bounds: the longest bar and the most items it is drawn for
MaxBarLength == 6
MaxBarItems == 13

\* int / int of C++ for a positive divisor: the quotient truncates to zero
CDiv(a, b) == IF a >= 0 THEN a \div b ELSE -((-a) \div b)

\* One character written at the bar: the character, the front and back
\* colours in force (ScrollColors.F is "thumb", ScrollColors.B is "track",
\* BackRGB is "back", rgb 0 is "black") and whether negative video is on
BarCell(ch, front, back, neg) ==
    [ch |-> ch, front |-> front, back |-> back, neg |-> neg]

\* "Adjust for special case at beginning": a thumb at cell 0 while the view
\* is not at the first item moves one cell on
ThumbUnbiased(t, First) == t
ThumbBias(t, First) ==
    IF t.thumbStart = 0 /\ First > 0
    THEN [thumbStart |-> t.thumbStart + 1, thumbEnd |-> t.thumbEnd + 1]
    ELSE t

\* thumbStart from thumbEnd and the thumb's size, or the minimum thumb
ThumbStart(thumbEnd, size) ==
    IF thumbEnd > 0
    THEN LET s1 == thumbEnd - size
             s2 == s1 - (IF s1 = thumbEnd THEN 1 ELSE 0)
         IN  [thumbStart |-> Max(s2, 0), thumbEnd |-> thumbEnd]
    ELSE [thumbStart |-> 0, thumbEnd |-> 1]

\* The thumb of HorizontalScrollBar::draw (the else branch)
HThumb(BarLength, FirstItem, NumItems) ==
    LET e0 == CDiv((FirstItem + BarLength) * BarLength, NumItems)
        e1 == IF e0 >= BarLength
              THEN BarLength - (IF FirstItem + BarLength < NumItems THEN 1 ELSE 0)
              ELSE e0
    IN  ThumbBias(ThumbStart(e1, CDiv(BarLength * BarLength, NumItems)),
                  FirstItem)

\* The thumb of VerticalScrollBar::draw (the else branch)
VThumb(BarLength, FirstRow, NumItems) ==
    LET NumBars == BarLength - 2
        e0 == CDiv((FirstRow + BarLength) * NumBars, NumItems)
        e1 == IF e0 >= NumBars
              THEN NumBars - (IF FirstRow + BarLength < NumBars THEN 1 ELSE 0)
              ELSE e0
    IN  ThumbBias(ThumbStart(e1, CDiv(BarLength * NumBars, NumItems)),
                  FirstRow)

\* The cells between the arrows: the track before the thumb, the thumb and
\* the track after it, each loop as the code bounds it
TrackCells(t, NumBars, track, thumb) ==
    Rep(Max(t.thumbStart, 0), track)
    \o Rep(Max(t.thumbEnd - t.thumbStart, 0), thumb)
    \o Rep(Max(NumBars - t.thumbEnd, 0), track)

\* HorizontalScrollBar::draw(bf, FirstItem, NumItems)
HDraw(BarLength, FirstItem, NumItems) ==
    LET NumBars == Max(BarLength, 0)
        base == [kind |-> "horizontal", BarLength |-> BarLength,
                 FirstItem |-> FirstItem, NumItems |-> NumItems]
    IN  IF NumItems <= BarLength
        THEN base @@
             [thumb |-> FALSE, thumbStart |-> 0, thumbEnd |-> 0,
              head |-> BarCell("LHEAD", "track", "back", FALSE),
              cells |-> Rep(Max(BarLength, 0),
                            BarCell("FSQUARE", "track", "back", FALSE)),
              tail |-> BarCell("RHEAD", "track", "back", FALSE)]
        ELSE LET t == HThumb(BarLength, FirstItem, NumItems)
             IN  base @@
                 [thumb |-> TRUE, thumbStart |-> t.thumbStart,
                  thumbEnd |-> t.thumbEnd,
                  head |-> BarCell("LHEAD",
                              IF t.thumbStart > 0 THEN "thumb" ELSE "track",
                              "back", FALSE),
                  cells |-> TrackCells(t, NumBars,
                              BarCell("FSQUARE", "track", "back", FALSE),
                              BarCell("FSQUARE", "thumb", "back", FALSE)),
                  tail |-> BarCell("RHEAD",
                              IF t.thumbEnd < NumBars THEN "thumb" ELSE "track",
                              "back", FALSE)]

\* VerticalScrollBar::draw(bf, FirstRow, NumItems)
VDraw(BarLength, FirstRow, NumItems) ==
    LET NumBars == BarLength - 2
        base == [kind |-> "vertical", BarLength |-> BarLength,
                 FirstItem |-> FirstRow, NumItems |-> NumItems]
    IN  IF NumItems < BarLength
        THEN base @@
             [thumb |-> FALSE, thumbStart |-> 0, thumbEnd |-> NumBars,
              head |-> BarCell("TRIUP", "track", "back", FALSE),
              cells |-> Rep(Max(NumBars, 0),
                            BarCell(" ", "track", "track", FALSE)),
              tail |-> BarCell("TRIDOWN", "track", "back", FALSE)]
        ELSE LET t == VThumb(BarLength, FirstRow, NumItems)
             IN  base @@
                 [thumb |-> TRUE, thumbStart |-> t.thumbStart,
                  thumbEnd |-> t.thumbEnd,
                  \* Seq.apply(bf) writes the back colour of Seq, B{0}
                  head |-> BarCell("TRIUP",
                              IF t.thumbStart > 0 THEN "thumb" ELSE "track",
                              "black", FALSE),
                  cells |-> TrackCells(t, NumBars,
                              BarCell(" ", "thumb", "track", FALSE),
                              BarCell(" ", "thumb", "track", TRUE)),
                  tail |-> BarCell("TRIDOWN",
                              IF t.thumbEnd = NumBars THEN "track" ELSE "thumb",
                              "back", FALSE)]

\* A bar of either kind constructed with its length, nothing drawn yet
InitBar ==
    /\ \E kind \in {"horizontal", "vertical"}, length \in 1..MaxBarLength :
           sb = [kind |-> kind, BarLength |-> length, FirstItem |-> 0,
                 NumItems |-> 0, thumb |-> FALSE, thumbStart |-> 0,
                 thumbEnd |-> 0, head |-> <<>>, cells |-> <<>>, tail |-> <<>>]
    /\ ic = IdleInput /\ icPrev = IdleInput /\ icKey = "none" /\ icCall = NoCall
    /\ dd = IdleDir /\ ddPrev = IdleDir /\ ddOp = "construct"
    /\ cu = IdleCursor /\ cuTarget = IdleCursor /\ cuPrev = IdleCursor
    /\ cuBuf = <<>> /\ cuMark = 0 /\ cuOp = 0
    /\ bx = IdleBox
    /\ tm = IdleWidget /\ ft = IdleWidget /\ mb = IdleWidget
    /\ bb = IdleWidget /\ pb = IdleWidget

\* draw() for a view that starts at item FirstItem of NumItems items
DrawHorizontal ==
    /\ sb.kind = "horizontal"
    /\ \E NumItems \in 1..MaxBarItems : \E FirstItem \in 0..(NumItems - 1) :
           sb' = HDraw(sb.BarLength, FirstItem, NumItems)
    /\ UNCHANGED <<icVars, ddVars, cuVars, bxVars, tmVars, wgVars>>

DrawVertical ==
    /\ sb.kind = "vertical"
    /\ \E NumItems \in 1..MaxBarItems : \E FirstRow \in 0..(NumItems - 1) :
           sb' = VDraw(sb.BarLength, FirstRow, NumItems)
    /\ UNCHANGED <<icVars, ddVars, cuVars, bxVars, tmVars, wgVars>>

(***************************************************************************)
(*                     c o o r d _ b o x  (coord.h)                        *)
(***************************************************************************)

\* Bounds: rectangle coordinates range over -1..MaxCoord and the minimum
\* sizes given to normalize over -1..MaxMinSize and the largest short
MaxCoord == 2
MaxMinSize == 3
SHRT_MAX == 32767

\* static_cast<short>(x), and the conversion of an int to a short member
Short(x) == ((x + SHRT_MAX + 1) % (2 * (SHRT_MAX + 1))) - (SHRT_MAX + 1)

\* coord_box{Top, Bottom} from the four coordinates
Box(tr, tc, br, bc) ==
    [Top |-> [Row |-> tr, Col |-> tc], Bottom |-> [Row |-> br, Col |-> bc]]

\* The rectangles the operations are applied to: every choice of the four
\* coordinates, inverted and negative ones included, and the 10 x 20 screen
Boxes ==
    { Box(tr, tc, br, bc) : tr \in -1..MaxCoord, tc \in -1..MaxCoord,
                            br \in -1..MaxCoord, bc \in -1..MaxCoord }
    \cup { Box(0, 0, 9, 19) }

\* coord::normalize
coord_normalize(p) ==
    [Row |-> IF p.Row > 0 THEN p.Row ELSE 0,
     Col |-> IF p.Col > 0 THEN p.Col ELSE 0]

num_rows(b) == b.Bottom.Row - b.Top.Row + 1
num_cols(b) == b.Bottom.Col - b.Top.Col + 1

\* coord_box::disjoint
disjoint(b, Rhs) ==
    \/ b.Top.Row > Rhs.Bottom.Row
    \/ b.Top.Col > Rhs.Bottom.Col
    \/ Rhs.Top.Row > b.Bottom.Row
    \/ Rhs.Top.Col > b.Bottom.Col

\* coord_box::contains
contains(b, Rhs) ==
    /\ b.Top.Row <= Rhs.Top.Row /\ b.Top.Col <= Rhs.Top.Col
    /\ b.Bottom.Row >= Rhs.Bottom.Row /\ b.Bottom.Col >= Rhs.Bottom.Col

\* coord_box::normalize(MinNumRows, MinNumCols); normalize() is
\* normalize(1, 1)
normalize(b, MinNumRows0, MinNumCols0) ==
    LET Top == coord_normalize(b.Top)
        Bottom == coord_normalize(b.Bottom)
        MinNumRows == IF MinNumRows0 > 0 THEN MinNumRows0 ELSE 0
        MinNumCols == IF MinNumCols0 > 0 THEN MinNumCols0 ELSE 0
        R == Short(Top.Row + MinNumRows - 1)
        C == Short(Top.Col + MinNumCols - 1)
    IN  [Top |-> Top,
         Bottom |-> [Row |-> IF R > Bottom.Row THEN R ELSE Bottom.Row,
                     Col |-> IF C > Bottom.Col THEN C ELSE Bottom.Col]]

\* The bounding box of the two rectangles (a faulty variant of intersect,
\* for comparison)
intersect_hull(b, Rhs) ==
    Box(Min(b.Top.Row, Rhs.Top.Row), Min(b.Top.Col, Rhs.Top.Col),
        Max(b.Bottom.Row, Rhs.Bottom.Row), Max(b.Bottom.Col, Rhs.Bottom.Col))

\* coord_box::intersect
intersect(b, Rhs) ==
    LET TR == IF b.Top.Row > Rhs.Top.Row THEN b.Top.Row ELSE Rhs.Top.Row
        TC == IF b.Top.Col > Rhs.Top.Col THEN b.Top.Col ELSE Rhs.Top.Col
        BR == IF b.Bottom.Row < Rhs.Bottom.Row THEN b.Bottom.Row ELSE Rhs.Bottom.Row
        BC == IF b.Bottom.Col < Rhs.Bottom.Col THEN b.Bottom.Col ELSE Rhs.Bottom.Col
    IN  Box(TR, TC, BR, BC)

\* Centering with the margin rounded up (a faulty variant of center_box,
\* for comparison)
center_box_up(b, NumRows, NumColumns) ==
    LET r == b.Top.Row + (b.Bottom.Row - b.Top.Row - NumRows + 2) \div 2
        c == b.Top.Col + (b.Bottom.Col - b.Top.Col - NumColumns + 2) \div 2
    IN  Box(r, c, r + NumRows - 1, c + NumColumns - 1)

\* coord_box::center_box
center_box(b, NumRows, NumColumns) ==
    LET t == [Row |-> Short(b.Top.Row
                            + CDiv(b.Bottom.Row - b.Top.Row - NumRows + 1, 2)),
              Col |-> Short(b.Top.Col
                            + CDiv(b.Bottom.Col - b.Top.Col - NumColumns + 1, 2))]
    IN  [Top |-> t,
         Bottom |-> [Row |-> Short(t.Row + Short(NumRows - 1)),
                     Col |-> Short(t.Col + Short(NumColumns - 1))]]

\* coord::apply(Buff): the code units that SetPos appends for the position;
\* the int arguments Row + 1 and Col + 1 become unsigned parameters
coord_apply(p) == SetPosUnits(p.Row + 1, p.Col + 1)

\* A rectangle, no operation applied yet
InitBox ==
    /\ \E b \in Boxes :
           bx = [op |-> "construct", box |-> b, rhs |-> b, r |-> 0, c |-> 0,
                 out |-> b, pos |-> b.Top, seq |-> <<>>]
    /\ ic = IdleInput /\ icPrev = IdleInput /\ icKey = "none" /\ icCall = NoCall
    /\ dd = IdleDir /\ ddPrev = IdleDir /\ ddOp = "construct"
    /\ cu = IdleCursor /\ cuTarget = IdleCursor /\ cuPrev = IdleCursor
    /\ cuBuf = <<>> /\ cuMark = 0 /\ cuOp = 0
    /\ sb = IdleBar
    /\ tm = IdleWidget /\ ft = IdleWidget /\ mb = IdleWidget
    /\ bb = IdleWidget /\ pb = IdleWidget

\* out = box.intersect(rhs)
Intersect ==
    /\ bx.op = "construct"
    /\ \E Rhs \in Boxes :
           bx' = [bx EXCEPT !.op = "intersect", !.rhs = Rhs,
                            !.out = intersect(bx.box, Rhs)]
    /\ UNCHANGED <<icVars, ddVars, cuVars, sbVars, tmVars, wgVars>>

\* out = box after box.normalize(r, c)
Normalize ==
    /\ bx.op = "construct"
    /\ \E r \in (-1..MaxMinSize) \cup {SHRT_MAX},
          c \in (-1..MaxMinSize) \cup {SHRT_MAX} :
           bx' = [bx EXCEPT !.op = "normalize", !.r = r, !.c = c,
                            !.out = normalize(bx.box, r, c)]
    /\ UNCHANGED <<icVars, ddVars, cuVars, sbVars, tmVars, wgVars>>

\* out = box.center_box(r, c), for a child of at least one row and column
\* and of at most one more than the parent has
CenterBox ==
    /\ bx.op = "construct"
    /\ \E r \in 1..(num_rows(bx.box) + 1), c \in 1..(num_cols(bx.box) + 1) :
           bx' = [bx EXCEPT !.op = "center_box", !.r = r, !.c = c,
                            !.out = center_box(bx.box, r, c)]
    /\ UNCHANGED <<icVars, ddVars, cuVars, sbVars, tmVars, wgVars>>

\* seq = what box.Top.offset(r, c).apply(Buff) appends to an empty Buff
Apply ==
    /\ bx.op = "construct"
    /\ \E r \in -1..1, c \in -1..1 :
           LET p == [Row |-> Short(bx.box.Top.Row + r),
                     Col |-> Short(bx.box.Top.Col + c)]
           IN  bx' = [bx EXCEPT !.op = "apply", !.r = r, !.c = c, !.pos = p,
                                !.seq = coord_apply(p)]
    /\ UNCHANGED <<icVars, ddVars, cuVars, sbVars, tmVars, wgVars>>

(***************************************************************************)
(*          F o o t e r B o x   and   M u l t i l i n e M e s s a g e B o x *)
(***************************************************************************)

\* Bounds of the widget model: the widest Place handed to create, the
\* longest text, the most blinks of one call and the largest message box
MaxFooterCols == 5
MaxFooterText == 4
MaxBlinks == 2
MaxMsgRows == 2

\* An escape sequence of ConsoleCMD.h as code units: ESC [ and its tail
CsiUnits(tail) == <<"ESC", "[">> \o tail

\* ConsoleCMD.h: LEFTHALF[2], RIGHTHALF[2]: two code units, one cell; "+"
\* stands for the second code unit of a symbol
LEFTHALF == <<"LEFTHALF", "+">>
RIGHTHALF == <<"RIGHTHALF", "+">>
\* The symbols handed to push_back: of one and of two code units
Symbols == {LLQUOTE, LEFTHALF}

\* colors.h: color::RED, and the back colours a footer is given:
\* GRAY.darken(50) of the constructor and a second one
RED == [r |-> 255, g |-> 0, b |-> 0]
SILVER == [r |-> 192, g |-> 192, b |-> 192]
FooterBacks == { [r |-> 64, g |-> 64, b |-> 64], [r |-> 0, g |-> 0, b |-> 128] }

\* std::wstring::resize(n): cut, or fill with wchar_t()
Resize(s, n) == IF n <= Len(s) THEN SubSeq(s, 1, n) ELSE s \o Rep(n - Len(s), "NUL")

\* The footer after FooterBox(): empty bf, the default Area of one cell.
\* shown and before record what the last call displayed and the bf it found
FooterBoxInit ==
    [created |-> FALSE, NumCols |-> 1, Capacity |-> 0, InitSize |-> 0,
     EndSize |-> 0, bf |-> <<>>,
     Color |-> [F |-> SILVER, B |-> [r |-> 64, g |-> 64, b |-> 64]],
     op |-> "construct", arg |-> 0, shown |-> <<>>, before |-> <<>>]

\* FooterBox::fill_end
fill_end(f) ==
    [f EXCEPT !.EndSize = Len(f.bf),
              !.bf = f.bf \o (IF f.Capacity > 0 THEN Rep(f.Capacity, " ") ELSE <<>>)
                       \o RIGHTHALF \o CsiUnits(<<"2", "4", "m">>)
                       \o CsiUnits(<<"D">>)]

\* FooterBox::clear
FooterBox_clear(f) ==
    fill_end([f EXCEPT !.Capacity = f.NumCols - 2, !.bf = Resize(f.bf, f.InitSize)])

\* FooterBox::append; Capacity < text.size() compares as unsigned
FooterBox_append(f, text) ==
    LET f1 == [f EXCEPT !.bf = Resize(f.bf, f.EndSize)]
    IN  IF f1.Capacity >= 0 /\ f1.Capacity < Len(text)
        THEN fill_end([f1 EXCEPT !.bf = f1.bf \o Substr(text, 0, f1.Capacity),
                                 !.Capacity = 0])
        ELSE fill_end([f1 EXCEPT !.bf = f1.bf \o text,
                                 !.Capacity = f1.Capacity - Len(text)])

\* FooterBox::push_back
FooterBox_push_back(f, Symbol) ==
    IF f.Capacity > 0
    THEN fill_end([f EXCEPT !.bf = Resize(f.bf, f.EndSize) \o Symbol,
                            !.Capacity = f.Capacity - 1])
    ELSE f

\* FooterBox::create with a Place of PlaceCols columns at the screen's top
\* left
FooterBox_create(f, PlaceCols) ==
    LET cols == IF PlaceCols < 2 THEN 2 ELSE PlaceCols
        bf0  == ColorApply(f.Color) \o SetPosUnits(1, 1)
                  \o CsiUnits(<<"2", "2", "m">>) \o CsiUnits(<<"2", "7", "m">>)
                  \o CsiUnits(<<"4", "m">>) \o <<"NUL">>
                  \o CsiUnits(<<"?", "2", "5", "l">>) \o LEFTHALF
    IN  FooterBox_clear([f EXCEPT !.created = TRUE, !.NumCols = cols,
                                  !.Capacity = 0, !.bf = bf0,
                                  !.InitSize = Len(bf0)])

\* FooterBox::update_status
update_status(f, Msg) == FooterBox_append(FooterBox_clear(f), Msg)

\* The padding and the text of centered_text and right_aligned_text: the
\* padding is appended at EndSize, then append(text) is called
PadAndAppend(f, padding, text) ==
    IF padding > 0
    THEN FooterBox_append([f EXCEPT !.bf = Resize(f.bf, f.EndSize) \o Rep(padding, " "),
                                    !.Capacity = f.Capacity - padding], text)
    ELSE FooterBox_append(f, text)

\* FooterBox::centered_text
centered_text(f0, text) ==
    LET f == FooterBox_clear(f0)
        maxLength == f.NumCols - 2
        textLength == Len(text)
    IN  IF textLength < maxLength
        THEN PadAndAppend(f, (maxLength - textLength) \div 2, text)
        ELSE FooterBox_append(f, text)

\* FooterBox::right_aligned_text
right_aligned_text(f0, text) ==
    LET f == FooterBox_clear(f0)
        maxLength == f.NumCols - 2
        textLength == Len(text)
    IN  IF textLength < maxLength
        THEN PadAndAppend(f, maxLength - textLength, text)
        ELSE FooterBox_append(f, text)

\* What a print of bf shows: the colours its first sequences select
PhaseOf(bf, Color, BlinkBack) ==
    LET Temp == ColorApply(Color)
    IN  IF Substr(bf, 0, Len(Temp)) = ColorApply([Color EXCEPT !.B = BlinkBack])
        THEN "highlighted"
        ELSE IF Substr(bf, 0, Len(Temp)) = Temp THEN "normal" ELSE "other"

\* FooterBox::blink, the loop from state i on
RECURSIVE FooterBlinkLoop(_, _, _, _)
FooterBlinkLoop(f, i, totalStates, BlinkBack) ==
    IF i >= totalStates THEN f
    ELSE LET Temp == IF i % 2 = 1 THEN ColorApply(f.Color)
                     ELSE ColorApply([f.Color EXCEPT !.B = BlinkBack])
             bf1  == Replace(f.bf, 0, Len(Temp), Temp)
         IN  FooterBlinkLoop(
                 [f EXCEPT !.bf = bf1,
                           !.shown = Append(f.shown, PhaseOf(bf1, f.Color, BlinkBack))],
                 i + 1, totalStates, BlinkBack)

\* FooterBox::blink
FooterBox_blink(f, BlinkBack, NumBlinks) ==
    FooterBlinkLoop(f, 0, NumBlinks * 2, BlinkBack)

\* One call on the footer; op and arg name it, shown and before start empty
FooterStep(op, arg, f) ==
    /\ ft' = [f EXCEPT !.op = op, !.arg = arg]
    /\ UNCHANGED <<icVars, ddVars, cuVars, sbVars, bxVars, tmVars, mb, bb, pb>>
Footer0 == [ft EXCEPT !.shown = <<>>, !.before = <<>>]

FooterCreate ==
    \E PlaceCols \in 1..MaxFooterCols :
        FooterStep("create", PlaceCols, FooterBox_create(Footer0, PlaceCols))
FooterSetBack ==
    \E RGB \in FooterBacks :
        FooterStep("set_back", 0, [Footer0 EXCEPT !.Color.B = RGB])
\* The calls that change the content are made on a created footer
FooterClear == ft.created /\ FooterStep("clear", 0, FooterBox_clear(Footer0))
FooterAppend ==
    \E n \in 0..MaxFooterText :
        /\ ft.created
        /\ FooterStep("append", n, FooterBox_append(Footer0, ItemText(n)))
FooterPushBack ==
    \E Symbol \in Symbols :
        /\ ft.created
        /\ FooterStep("push_back", Len(Symbol), FooterBox_push_back(Footer0, Symbol))
FooterUpdateStatus ==
    \E n \in 0..MaxFooterText :
        /\ ft.created
        /\ FooterStep("update_status", n, update_status(Footer0, ItemText(n)))
FooterCenteredText ==
    \E n \in 0..MaxFooterText :
        /\ ft.created
        /\ FooterStep("centered_text", n, centered_text(Footer0, ItemText(n)))
FooterRightAlignedText ==
    \E n \in 0..MaxFooterText :
        /\ ft.created
        /\ FooterStep("right_aligned_text", n, right_aligned_text(Footer0, ItemText(n)))
FooterBlink ==
    \E NumBlinks \in 0..MaxBlinks :
        FooterStep("blink", NumBlinks,
                   FooterBox_blink([Footer0 EXCEPT !.before = ft.bf], RED, NumBlinks))

\* ---------------- MultilineMessageBox -----------------------------------
\* coord_box::clear(bf) of an Area of NumRows x NumCols at the top left
AreaClear(NumRows, NumCols) ==
    IF NumRows <= 0 \/ NumCols <= 0 THEN <<>>
    ELSE LET RECURSIVE Rows(_)
             Rows(i) == IF i >= NumRows - 1 THEN <<>>
                        ELSE Rep(NumCols, " ") \o MoveLeftUnits(NumCols)
                                 \o MoveDownUnits \o Rows(i + 1)
         IN  SetPosUnits(1, 1) \o Rows(0) \o Rep(NumCols, " ") \o MoveLeftUnits(1)

\* The message box after MultilineMessageBox(): empty bf; neg is the
\* terminal's inverse-video attribute that SetNegative() / ClrNegative() set
MsgBoxInit ==
    [created |-> FALSE, NumRows |-> 1, NumCols |-> 1, bf |-> <<>>,
     NextLine |-> 0, NextSize |-> 0, neg |-> FALSE,
     op |-> "construct", arg |-> 0, shown |-> <<>>, before |-> <<>>]

\* MultilineMessageBox::clear
MsgBox_clear(m) ==
    LET bf0 == ColorApply(ListColors) \o SetPosUnits(1, 1)
                  \o CsiUnits(<<"?", "2", "5", "l">>) \o CsiUnits(<<"2", "4", "m">>)
    IN  [m EXCEPT !.bf = bf0 \o AreaClear(m.NumRows, m.NumCols),
                  !.NextLine = 0, !.NextSize = Len(bf0)]

\* MultilineMessageBox::create
MsgBox_create(m) == MsgBox_clear(m)

\* MultilineMessageBox::blink, the loop from state i on: the attribute is
\* written to the terminal, then bf is printed under it
RECURSIVE MsgBlinkLoop(_, _, _)
MsgBlinkLoop(m, i, NumBlinks) ==
    IF i > NumBlinks THEN m
    ELSE LET neg1 == (i % 2 = 1)
         IN  MsgBlinkLoop(
                 [m EXCEPT !.neg = neg1,
                           !.shown = Append(m.shown,
                               IF neg1 THEN "highlighted" ELSE "normal")],
                 i + 1, NumBlinks)

\* MultilineMessageBox::blink
MsgBox_blink(m, NumBlinks) == MsgBlinkLoop(m, 1, NumBlinks * 2)

MsgStep(op, arg, m) ==
    /\ mb' = [m EXCEPT !.op = op, !.arg = arg]
    /\ UNCHANGED <<icVars, ddVars, cuVars, sbVars, bxVars, tmVars, ft, bb, pb>>
Msg0 == [mb EXCEPT !.shown = <<>>, !.before = <<>>]

MsgCreate ==
    \E rows \in 1..MaxMsgRows, cols \in 1..MaxMsgRows :
        MsgStep("create", rows,
                MsgBox_create([Msg0 EXCEPT !.created = TRUE, !.NumRows = rows,
                                           !.NumCols = cols]))
MsgBlink ==
    \E NumBlinks \in 0..MaxBlinks :
        MsgStep("blink", NumBlinks,
                MsgBox_blink([Msg0 EXCEPT !.before = mb.bf], NumBlinks))

InitWidgets ==
    /\ ft = FooterBoxInit
    /\ mb = MsgBoxInit
    /\ ic = IdleInput /\ icPrev = IdleInput /\ icKey = "none" /\ icCall = NoCall
    /\ dd = IdleDir /\ ddPrev = IdleDir /\ ddOp = "construct"
    /\ cu = IdleCursor /\ cuTarget = IdleCursor /\ cuBuf = <<>> /\ cuMark = 0
    /\ cuPrev = IdleCursor /\ cuOp = 0
    /\ sb = IdleBar /\ bx = IdleBox
    /\ tm = IdleWidget /\ bb = IdleWidget /\ pb = IdleWidget

(***************************************************************************)
(*                            B u t t o n B o x                            *)
(***************************************************************************)

\* Bounds of the ButtonBox model: the most buttons appended, the width of a
\* button and the longest button text
MaxButtons == 2
ButtonCols == 3
MaxButtonText == 4
\* The rows a ButtonBox is placed at and moved to: the screen's top, and the
\* last row whose 1-based number still has four digits
ButtonRows == {0, 9998}

\* ButtonBox::Preamble: SetHide, ClrBold, ClrUnderline, ClrNegative and the
\* zeros that fill the 23 code units append(Preamble, 23) copies
Preamble ==
    CsiUnits(<<"?", "2", "5", "l">>) \o CsiUnits(<<"2", "2", "m">>)
        \o CsiUnits(<<"2", "4", "m">>) \o CsiUnits(<<"2", "7", "m">>)
        \o <<"NUL", "NUL">>

\* Area.Top.offset(i, 0).apply(Buff): SetPos of the 1-based position
TopOffsetApply(b, i) == SetPosUnits(Short(b.TopRow + i) + 1, b.TopCol + 1)

\* The ButtonBox after ButtonBox(ListColors, ListFocusColors) whose owner
\* has set Area.Top and the columns of Area
ButtonBoxInit(row, cols) ==
    [cleared |-> FALSE, TopRow |-> row, TopCol |-> 0, NumRows |-> 1,
     NumCols |-> cols, bf |-> <<>>, LineBlockCoordOffset |-> 0,
     LineBlockTextOffset |-> 0, LineBlockSize |-> 0, FocusIndex |-> -1,
     op |-> "construct", arg |-> 0, before |-> <<>>]

\* ButtonBox::set_passive, set_active
set_passive(b, Index) ==
    LET Temp == ColorApply(ListColors)
    IN  [b EXCEPT !.bf = Replace(b.bf, b.LineBlockSize * Index, Len(Temp), Temp)]
set_active(b, Index) ==
    LET Temp == ColorApply(ListFocusColors)
    IN  [b EXCEPT !.bf = Replace(b.bf, b.LineBlockSize * Index, Len(Temp), Temp)]

\* ButtonBox::set_button_text; ret is its return value
set_button_text(b, wv, Index, Alignment) ==
    LET NumButtons == b.NumRows
        ButtonWidth == b.NumCols
        Length == Len(wv)
        ViewLength == IF Length >= ButtonWidth THEN ButtonWidth ELSE Length
        LeftPadding ==
            IF Length >= ButtonWidth THEN 0
            ELSE IF Alignment < 0 THEN 0
            ELSE IF Alignment > 0 THEN ButtonWidth - ViewLength
            ELSE (ButtonWidth - ViewLength) \div 2
        RightPadding ==
            IF Length >= ButtonWidth THEN 0
            ELSE IF Alignment < 0 THEN ButtonWidth - ViewLength
            ELSE IF Alignment > 0 THEN 0
            ELSE ButtonWidth - ViewLength - LeftPadding
        Line == Rep(Max(LeftPadding, 0), " ") \o Substr(wv, 0, ViewLength)
                    \o Rep(Max(RightPadding, 0), " ")
    IN  IF Index < 0 \/ Index >= NumButtons THEN [b |-> b, ret |-> TRUE]
        ELSE [b |-> [b EXCEPT !.bf = Replace(b.bf,
                                  Index * b.LineBlockSize + b.LineBlockTextOffset,
                                  Len(Line), Line)],
              ret |-> FALSE]

\* ButtonBox::clear
ButtonBox_clear(b) ==
    LET ButtonWidth == b.NumCols
        bf1 == ColorApply(ListColors)
        bf2 == bf1 \o TopOffsetApply(b, 0) \o Preamble
    IN  [b EXCEPT !.cleared = TRUE, !.NumRows = 0,
                  !.LineBlockCoordOffset = Len(bf1),
                  !.LineBlockTextOffset = Len(bf2),
                  !.LineBlockSize = Len(bf2) + ButtonWidth,
                  !.bf = <<>>]

\* ButtonBox::append
ButtonBox_append(b, wv, Alignment) ==
    LET ButtonWidth == b.NumCols
        Index == b.NumRows
        bf1 == b.bf \o ColorApply(ListColors) \o TopOffsetApply(b, Index) \o Preamble
        b1 == [b EXCEPT !.NumRows = Index + 1,
                        !.bf = Resize(bf1, Len(bf1) + ButtonWidth)]
    IN  set_button_text(b1, wv, Index, Alignment).b

\* ButtonBox::move_down, page_down, move_up, page_up (the rows they write to
\* the terminal are rows of bf)
ButtonBox_move_down(b) ==
    IF b.FocusIndex >= 0 /\ b.FocusIndex + 1 < b.NumRows
    THEN [set_active(set_passive(b, b.FocusIndex), b.FocusIndex + 1)
              EXCEPT !.FocusIndex = b.FocusIndex + 1]
    ELSE b
ButtonBox_page_down(b) ==
    LET LastButton == b.NumRows - 1
    IN  IF b.FocusIndex >= 0 /\ b.FocusIndex < LastButton
        THEN [set_active(set_passive(b, b.FocusIndex), LastButton)
                  EXCEPT !.FocusIndex = LastButton]
        ELSE b
ButtonBox_move_up(b) ==
    IF b.FocusIndex > 0 /\ b.FocusIndex < b.NumRows
    THEN [set_passive(set_active(b, b.FocusIndex - 1), b.FocusIndex)
              EXCEPT !.FocusIndex = b.FocusIndex - 1]
    ELSE b
ButtonBox_page_up(b) ==
    IF b.FocusIndex > 0 /\ b.FocusIndex < b.NumRows
    THEN [set_passive(set_active(b, 0), b.FocusIndex) EXCEPT !.FocusIndex = 0]
    ELSE b

\* ButtonBox::set_focus, the loop from button i on
RECURSIVE SetFocusLoop(_, _)
SetFocusLoop(b, i) ==
    IF i >= b.NumRows THEN b
    ELSE SetFocusLoop(IF i = b.FocusIndex THEN set_active(b, i)
                      ELSE set_passive(b, i), i + 1)
\* ButtonBox::set_focus
set_focus(b, Index) == SetFocusLoop([b EXCEPT !.FocusIndex = Index], 0)

\* ButtonBox::move_to, the loop from button i on
RECURSIVE MoveToLoop(_, _, _)
MoveToLoop(b, i, NumButtons) ==
    IF i >= NumButtons THEN b
    ELSE LET Text == TopOffsetApply(b, i)
         IN  MoveToLoop([b EXCEPT !.bf = Replace(b.bf,
                               b.LineBlockSize * i + b.LineBlockCoordOffset,
                               Len(Text), Text)],
                        i + 1, NumButtons)
\* ButtonBox::move_to
move_to(b, NewRow, NewCol) ==
    MoveToLoop([b EXCEPT !.TopRow = NewRow, !.TopCol = NewCol], 0, b.NumRows)

\* ButtonBox::update_button
update_button(b, index, text, alignment) ==
    IF index < 0 \/ index >= b.NumRows THEN b
    ELSE set_button_text(b, text, index, alignment).b

\* ButtonBox::button_count
button_count(b) == b.NumRows

\* One call on the ButtonBox; before is the bf the call found
ButtonStep(op, arg, b) ==
    /\ bb' = [b EXCEPT !.op = op, !.arg = arg, !.before = bb.bf]
    /\ UNCHANGED <<icVars, ddVars, cuVars, sbVars, bxVars, tmVars, ft, mb, pb>>

ButtonClear == ButtonStep("clear", 0, ButtonBox_clear(bb))
\* The other calls are made after clear()
ButtonAppend ==
    \E n \in 1..MaxButtonText, Alignment \in {-1, 0, 1} :
        /\ bb.cleared /\ bb.NumRows < MaxButtons
        /\ ButtonStep("append", bb.NumRows,
                      ButtonBox_append(bb, ItemText(n), Alignment))
ButtonUpdate ==
    \E index \in -1..MaxButtons, n \in 1..MaxButtonText, alignment \in {-1, 0, 1} :
        /\ bb.cleared
        /\ ButtonStep("update_button", index,
                      update_button(bb, index, ItemText(n), alignment))
ButtonSetFocus ==
    \E Index \in -1..MaxButtons :
        bb.cleared /\ ButtonStep("set_focus", Index, set_focus(bb, Index))
ButtonMoveUp == bb.cleared /\ ButtonStep("move_up", 0, ButtonBox_move_up(bb))
ButtonMoveDown == bb.cleared /\ ButtonStep("move_down", 0, ButtonBox_move_down(bb))
ButtonPageUp == bb.cleared /\ ButtonStep("page_up", 0, ButtonBox_page_up(bb))
ButtonPageDown == bb.cleared /\ ButtonStep("page_down", 0, ButtonBox_page_down(bb))
ButtonMoveTo ==
    \E NewRow \in ButtonRows :
        bb.cleared /\ ButtonStep("move_to", NewRow, move_to(bb, NewRow, 0))

InitButton ==
    /\ bb \in { ButtonBoxInit(row, ButtonCols) : row \in ButtonRows }
    /\ ic = IdleInput /\ icPrev = IdleInput /\ icKey = "none" /\ icCall = NoCall
    /\ dd = IdleDir /\ ddPrev = IdleDir /\ ddOp = "construct"
    /\ cu = IdleCursor /\ cuTarget = IdleCursor /\ cuBuf = <<>> /\ cuMark = 0
    /\ cuPrev = IdleCursor /\ cuOp = 0
    /\ sb = IdleBar /\ bx = IdleBox
    /\ tm = IdleWidget /\ ft = IdleWidget /\ mb = IdleWidget /\ pb = IdleWidget

(***************************************************************************)
(*               P r o g r e s s B a r C o n t r o l  (WindowBox.h)        *)
(***************************************************************************)

\* Bound of the ProgressBarControl model: the widest bar asked of create
\* apart from one wider than create allows
MaxNumBars == 12
\* The widths handed to create (below 4, in range, above 100) and the
\* percentages handed to draw and update (below 0, in range, above 100)
NumBarsArgs == 1..MaxNumBars \cup {101}
PercentageArgs == -1..101

\* ProgressBarControl(): Color.F = gray(50), Color.B = -gray(50)
ProgressBarColor ==
    [F |-> [r |-> 50, g |-> 50, b |-> 50], B |-> [r |-> 205, g |-> 205, b |-> 205]]

\* color::apply_mirror(Buffer): F.setBack, B.setFront
ColorApplyMirror(C) ==
    BackColorUnits(C.F.r, C.F.g, C.F.b) \o FrontColorUnits(C.B.r, C.B.g, C.B.b)

\* std::format(L"{}%", Percentage)
PercentageText(Percentage) ==
    (IF Percentage < 0 THEN <<"-">> \o Decimal(-Percentage) ELSE Decimal(Percentage))
        \o <<"%">>

\* The bar after ProgressBarControl(): Area of one row and ten columns at
\* {1, 1}
ProgressBarInit ==
    [created |-> FALSE, TopRow |-> 1, TopCol |-> 1, NumCols |-> 10,
     Percentage |-> 0, PreMessageSize |-> 0, bf |-> <<>>, op |-> "construct"]

\* ProgressBarControl::draw()
draw(p0) ==
    LET percentageText == PercentageText(p0.Percentage)
        p == IF p0.PreMessageSize = 0
             THEN LET bf0 == SetPosUnits(p0.TopRow + 1, p0.TopCol + 1)
                                 \o ColorApply(ProgressBarColor)
                  IN  [p0 EXCEPT !.bf = bf0, !.PreMessageSize = Len(bf0)]
             ELSE p0
        bf1 == Resize(p.bf, p.PreMessageSize)
        barWidth == p.NumCols
        filledWidth == (p.Percentage * barWidth) \div 100
        textLength == IF p.Percentage < 10 THEN 2
                      ELSE IF p.Percentage < 100 THEN 3 ELSE 4
        leftSegmentWidth == (barWidth - textLength) \div 2
        rightSegmentStart == leftSegmentWidth + textLength
        Mirror == ColorApplyMirror(ProgressBarColor)
    IN  IF filledWidth <= leftSegmentWidth
        THEN [p EXCEPT !.bf = bf1 \o Rep(filledWidth, " ") \o Mirror
                                \o Rep(leftSegmentWidth - filledWidth, " ")
                                \o percentageText
                                \o Rep(barWidth - rightSegmentStart, " ")]
        ELSE IF filledWidth <= rightSegmentStart
        THEN [p EXCEPT !.bf = bf1 \o Rep(leftSegmentWidth, " ")
                                \o SubSeq(percentageText, 1, filledWidth - leftSegmentWidth)
                                \o Mirror
                                \o SubSeq(percentageText,
                                          filledWidth - leftSegmentWidth + 1,
                                          rightSegmentStart - leftSegmentWidth)
                                \o Rep(rightSegmentStart - filledWidth, " ")]
        ELSE [p EXCEPT !.bf = bf1 \o Rep(leftSegmentWidth, " ") \o percentageText
                                \o Rep(filledWidth - rightSegmentStart, " ")
                                \o Mirror \o Rep(barWidth - filledWidth, " ")]

\* ProgressBarControl::create(Top, NumBars) at Top = {0, 0}
ProgressBar_create(p, NumBars) ==
    LET n == IF NumBars < 4 THEN 4 ELSE IF NumBars > 100 THEN 100 ELSE NumBars
        bf0 == ColorApply(ProgressBarColor) \o SetPosUnits(1, 1)
                   \o CsiUnits(<<"?", "2", "5", "l">>) \o CsiUnits(<<"2", "2", "m">>)
                   \o CsiUnits(<<"2", "7", "m">>)
    IN  draw([p EXCEPT !.created = TRUE, !.TopRow = 0, !.TopCol = 0,
                       !.NumCols = n, !.bf = bf0, !.PreMessageSize = Len(bf0),
                       !.Percentage = 0])

\* ProgressBarControl::draw(ProgressPercentage): std::clamp, draw(), print()
ProgressBar_draw(p, ProgressPercentage) ==
    draw([p EXCEPT !.Percentage =
              IF ProgressPercentage < 0 THEN 0
              ELSE IF ProgressPercentage > 100 THEN 100 ELSE ProgressPercentage])

\* ProgressBarControl::update
ProgressBar_update(p, ProgressPercentage) ==
    IF ProgressPercentage # p.Percentage \/ p.Percentage = 0
    THEN ProgressBar_draw(p, ProgressPercentage)
    ELSE p

\* One call on the progress bar
ProgressStep(op, p) ==
    /\ pb' = [p EXCEPT !.op = op]
    /\ UNCHANGED <<icVars, ddVars, cuVars, sbVars, bxVars, tmVars, ft, mb, bb>>

ProgressCreate ==
    \E NumBars \in NumBarsArgs : ProgressStep("create", ProgressBar_create(pb, NumBars))
ProgressDraw ==
    \E ProgressPercentage \in PercentageArgs :
        ProgressStep("draw", ProgressBar_draw(pb, ProgressPercentage))
ProgressUpdate ==
    \E ProgressPercentage \in PercentageArgs :
        ProgressStep("update", ProgressBar_update(pb, ProgressPercentage))

InitProgress ==
    /\ pb = ProgressBarInit
    /\ ic = IdleInput /\ icPrev = IdleInput /\ icKey = "none" /\ icCall = NoCall
    /\ dd = IdleDir /\ ddPrev = IdleDir /\ ddOp = "construct"
    /\ cu = IdleCursor /\ cuTarget = IdleCursor /\ cuBuf = <<>> /\ cuMark = 0
    /\ cuPrev = IdleCursor /\ cuOp = 0
    /\ sb = IdleBar /\ bx = IdleBox
    /\ tm = IdleWidget /\ ft = IdleWidget /\ mb = IdleWidget /\ bb = IdleWidget

(***************************************************************************)
(*                         S p e c i f i c a t i o n s                     *)
(***************************************************************************)

\* ---------------- a long list, navigated by rows and pages --------------
\* Bounds: the most items of the long list and the tallest Area it is shown in
MaxScrollItems == 30
MaxScrollRows == 11

\* n calls of add_item; the items alternate between texts that fit the two
\* columns and texts that need horizontal scrolling
RECURSIVE AddItems(_, _)
AddItems(d, n) ==
    IF n = 0 THEN d
    ELSE add_item(AddItems(d, n - 1),
                  ItemText(LeftColumnSize + (n % 2) * (RightCols + 2)))

\* The box after initialize(), the add_item calls and create()
InitScroll ==
    /\ \E rows \in (MaxScrollRows - 1)..MaxScrollRows,
          n \in (MaxScrollItems - 1)..MaxScrollItems :
           dd = create(AddItems(initialize(
                    DirConstruct(rows, LeftColumnSize + 3 + RightCols)), n))
    /\ ddPrev = [Begin(dd) EXCEPT !.TempBuffer = <<>>]
    /\ ddOp = "create"
    /\ ic = IdleInput /\ icPrev = IdleInput /\ icKey = "none" /\ icCall = NoCall
    /\ cu = IdleCursor /\ cuTarget = IdleCursor /\ cuPrev = IdleCursor
    /\ cuBuf = <<>> /\ cuMark = 0 /\ cuOp = 0
    /\ sb = IdleBar /\ bx = IdleBox
    /\ tm = IdleWidget /\ ft = IdleWidget /\ mb = IdleWidget
    /\ bb = IdleWidget /\ pb = IdleWidget

NextScroll == MoveUp \/ MoveDown \/ PageUp \/ PageDown

NextInput == Insert
NextCursor == UpdateTo

SpecInput == InitInput /\ [][NextInput]_vars
SpecDir == InitDir /\ [][NextDir]_vars
SpecSqueeze == InitDir /\ [][NextDir \/ Squeeze]_vars
SpecAttr == InitAttr /\ [][SetBit \/ UpdateBit \/ SetShapeTo \/ UpdateShapeTo
                           \/ SetColors \/ UpdateColors \/ SetTo \/ UpdateToRhs
                           \/ ApplyMirror]_vars
SpecFooter == InitWidgets /\ [][FooterCreate \/ FooterSetBack \/ FooterClear
                                \/ FooterAppend \/ FooterPushBack
                                \/ FooterUpdateStatus \/ FooterCenteredText
                                \/ FooterRightAlignedText \/ FooterBlink]_vars
SpecBlink == InitWidgets /\ [][FooterCreate \/ FooterSetBack \/ FooterUpdateStatus
                               \/ FooterBlink \/ MsgCreate \/ MsgBlink]_vars
SpecButton == InitButton /\ [][ButtonClear \/ ButtonAppend \/ ButtonUpdate
                              \/ ButtonSetFocus \/ ButtonMoveUp \/ ButtonMoveDown
                              \/ ButtonPageUp \/ ButtonPageDown \/ ButtonMoveTo]_vars
SpecProgress == InitProgress /\ [][ProgressCreate \/ ProgressDraw \/ ProgressUpdate]_vars
SpecScroll == InitScroll /\ [][NextScroll]_vars
SpecCursor == InitCursor /\ [][NextCursor]_vars
SpecType == InitType /\ [][Type]_vars
SpecGet == InitGet /\ [][CallGet \/ CallGetHidden \/ GetKey \/ GetHiddenKey]_vars
SpecBox == InitBox /\ [][Intersect \/ Normalize \/ CenterBox \/ Apply]_vars
SpecBar == InitBar /\ [][DrawHorizontal \/ DrawVertical]_vars

(***************************************************************************)
(*                          P r o p e r t i e s                            *)
(***************************************************************************)

\* ---------------- InputControl (SpecInput) ------------------------------

\* C1: after every key processed by insert(), 0 <= BeginIndex,
\* 0 <= BeginOffset <= min(field width, MaxLength) and
\* BeginIndex + BeginOffset <= len(Text) <= MaxLength, and insert() has not
\* raised its invalid-state error.
C1_StateInvariant ==
    /\ ~ic.thrown
    /\ 0 <= ic.BeginIndex
    /\ 0 <= ic.BeginOffset
    /\ ic.BeginOffset <= Min(ic.AreaCols, ic.MaxLength)
    /\ ic.BeginIndex + ic.BeginOffset <= Len(ic.Text)
    /\ Len(ic.Text) <= ic.MaxLength

\* A key has been processed and the state sits on every upper limit at once:
\* the text is full, the view is scrolled and the cursor is past the last cell
C1_Witness ==
    /\ icKey # "none"
    /\ Len(ic.Text) = ic.MaxLength
    /\ ic.BeginIndex > 0
    /\ ic.BeginOffset = Min(ic.AreaCols, ic.MaxLength)
    /\ ic.BeginIndex + ic.BeginOffset = Len(ic.Text)

\* The cells the state calls for: Text[BeginIndex .. BeginIndex + width),
\* each character shown as the mask character when masking is on, padded
\* with spaces to the width of the field
VisibleSlice(s) ==
    [i \in 1..s.AreaCols |->
        IF s.BeginIndex + i <= Len(s.Text)
        THEN (IF s.wc # NoMask THEN s.wc ELSE s.Text[s.BeginIndex + i])
        ELSE " "]

\* C5: after every key processed by insert(), the cells of the field on the
\* terminal are the visible slice of the state and the terminal cursor is at
\* field column BeginOffset.
C5_DisplayMatchesState ==
    icKey # "none" => /\ ic.cells = VisibleSlice(ic)
                      /\ ic.curCol = ic.BeginOffset

\* The last key was a displayable character that met a full text in insert
\* (non-overwrite) mode
RejectedInsert ==
    /\ icKey \in DisplayChars
    /\ Len(icPrev.Text) = icPrev.MaxLength
    /\ ~icPrev.InsertOn

\* C6: insert() of a displayable character into a full text in insert
\* (non-overwrite) mode returns false.
C6_RejectedInsertReturnsFalse == RejectedInsert => ic.ret = FALSE

\* C7: insert() of a displayable character into a full text in insert
\* (non-overwrite) mode changes none of Text, BeginIndex, BeginOffset and
\* InsertOn, and writes nothing to the terminal.
C7_RejectedInsertIsNoOp ==
    RejectedInsert =>
        /\ ic.Text = icPrev.Text
        /\ ic.BeginIndex = icPrev.BeginIndex
        /\ ic.BeginOffset = icPrev.BeginOffset
        /\ ic.InsertOn = icPrev.InsertOn
        /\ ic.writes = 0
        /\ ic.cells = icPrev.cells
        /\ ic.curCol = icPrev.curCol
        /\ ic.shape = icPrev.shape
        /\ ic.show = icPrev.show

\* A character was typed into a full, scrolled text in insert mode with the
\* cursor inside the text
C7_Witness ==
    /\ RejectedInsert
    /\ icPrev.BeginIndex > 0
    /\ icPrev.BeginIndex + icPrev.BeginOffset < Len(icPrev.Text)

\* The last key was a displayable character that met a full text in
\* overwrite mode with the cursor index below len(Text)
OverwriteAtFull ==
    /\ icKey \in DisplayChars
    /\ Len(icPrev.Text) = icPrev.MaxLength
    /\ icPrev.InsertOn
    /\ icPrev.BeginIndex + icPrev.BeginOffset < Len(icPrev.Text)

\* C8: with a full text, overwrite mode and cursor index c < len(Text),
\* insert() of x returns true, sets Text[c] to x, leaves every other
\* character and the length as they were, and moves the cursor index to c + 1.
C8_OverwriteAtFull ==
    OverwriteAtFull =>
        LET c == icPrev.BeginIndex + icPrev.BeginOffset
        IN  /\ ic.ret = TRUE
            /\ Len(ic.Text) = Len(icPrev.Text)
            /\ \A i \in 1..Len(ic.Text) :
                   ic.Text[i] = IF i = c + 1 THEN icKey ELSE icPrev.Text[i]
            /\ ic.BeginIndex + ic.BeginOffset = c + 1

\* A character of the full text was overwritten by a different one while the
\* cursor stood in the last cell of a field narrower than the text
C8_Witness ==
    /\ OverwriteAtFull
    /\ icPrev.Text[icPrev.BeginIndex + icPrev.BeginOffset + 1] # icKey
    /\ icPrev.BeginOffset = icPrev.AreaCols - 1
    /\ icPrev.AreaCols < icPrev.MaxLength

\* ---------------- cursor (SpecCursor) ------------------------------------

\* The eight tracked fields of a cursor state
TrackedFields(c) ==
    [back |-> <<c.B.R, c.B.G, c.B.B>>, front |-> <<c.F.R, c.F.G, c.F.B>>,
     shape |-> c.F.SHAPE, visibility |-> c.F.SHOW, blink |-> c.F.BLINK,
     inverse |-> c.F.NEG, bold |-> c.F.BOLD, underline |-> c.F.UNDER]

FieldNames ==
    {"back", "front", "shape", "visibility", "blink", "inverse", "bold", "underline"}
ColorFields == {"back", "front"}

\* C9: after C.update_to(buf, X) the eight tracked fields of C equal those of
\* X, and an immediately following C.update_to(buf, X) appends nothing to buf.
C9_ConvergesAndIdempotent ==
    /\ cuOp >= 1 => TrackedFields(cu) = TrackedFields(cuTarget)
    /\ cuOp >= 2 => Len(cuBuf) = cuMark

\* Two calls were made, the first found every field different from the
\* target's and appended to buf, the second appended nothing
C9_Witness ==
    /\ cuOp = 2
    /\ cuBuf # <<>>
    /\ Len(cuBuf) = cuMark
    /\ TrackedFields(cu) = TrackedFields(cuTarget)

\* The escape sequences of each field
FieldCmds ==
    [back |-> {"48;2"}, front |-> {"38;2"}, shape |-> {"q"},
     visibility |-> {"?25h", "?25l"}, blink |-> {"?12h", "?12l"},
     inverse |-> {"7m", "27m"}, bold |-> {"1m", "22m"}, underline |-> {"4m", "24m"}]

\* What the last call appended to buf, without the padding code units: the
\* code unit 0 that SetBold, SetUnderline and SetNegative push after their
\* sequence is not an escape sequence
IsSequence(e) == e.cmd # "NUL"
AppendedSequences == SelectSeq(SubSeq(cuBuf, cuMark + 1, Len(cuBuf)), IsSequence)

\* C10: update_to appends exactly one escape sequence for each of the eight
\* fields whose tracked value differs from the target's, none for a field
\* that is equal, and every colour sequence before every shape or attribute
\* sequence.
C10_OneSequencePerDifference ==
    cuOp >= 1 =>
        LET seq == AppendedSequences
            idx(f) == {i \in 1..Len(seq) : seq[i].cmd \in FieldCmds[f]}
        IN  /\ \A f \in FieldNames :
                   Cardinality(idx(f)) =
                       IF TrackedFields(cuPrev)[f] # TrackedFields(cuTarget)[f]
                       THEN 1 ELSE 0
            /\ \A i \in 1..Len(seq) : \E f \in FieldNames : i \in idx(f)
            /\ \A f \in ColorFields, g \in FieldNames \ ColorFields :
                   \A i \in idx(f), j \in idx(g) : i < j

\* A call that found the two colours and two of the attributes different and
\* the other four fields equal
C10_Witness ==
    /\ cuOp = 1
    /\ Len(AppendedSequences) = 4
    /\ TrackedFields(cuPrev).back # TrackedFields(cuTarget).back
    /\ TrackedFields(cuPrev).front # TrackedFields(cuTarget).front
    /\ TrackedFields(cuPrev).bold # TrackedFields(cuTarget).bold
    /\ TrackedFields(cuPrev).shape # TrackedFields(cuTarget).shape

\* ---------------- DirectoryDisplayBox (SpecDir) -------------------------

\* C2: after create() and after every navigation call on a list with
\* NumIndexes > 0: 0 <= TopIndex <= FocusIndex < NumIndexes and
\* FocusIndex - TopIndex < visibleCount = Area.num_rows() - 1.
C2_IndexInvariant ==
    (dd.phase = "ready" /\ dd.NumIndexes > 0) =>
        /\ 0 <= dd.TopIndex
        /\ dd.TopIndex <= dd.FocusIndex
        /\ dd.FocusIndex < dd.NumIndexes
        /\ dd.FocusIndex - dd.TopIndex < dd.AreaRows - 1

\* page_down scrolled a window of two rows onto the last item of a list
\* longer than the window
C2_Witness ==
    /\ ddOp = "page_down"
    /\ dd.AreaRows - 1 >= 2
    /\ dd.NumIndexes > dd.AreaRows - 1
    /\ dd.TopIndex > ddPrev.TopIndex
    /\ dd.FocusIndex = dd.NumIndexes - 1
    /\ dd.FocusIndex - dd.TopIndex = dd.AreaRows - 2

NavigationOps ==
    {"move_up", "move_down", "page_up", "page_down", "swap_select",
     "move_left", "move_right"}

\* Row i (0-based) of a buffer of fixed-stride rows
RowOf(buffer, i, stride) == SubSeq(buffer, i * stride + 1, (i + 1) * stride)

\* C3: on a box built by initialize(), add_item() calls that returned and
\* create(), every call of move_up, move_down, page_up, page_down,
\* swap_select, move_left or move_right leaves the length of bf equal to
\* TextLineLength times the number of rows and leaves every row other than
\* the old-focus row and the new-focus row as it was before the call.
C3_PatchFrame ==
    ddOp \in NavigationOps =>
        /\ ~dd.thrown
        /\ Len(dd.bf) = dd.TextLineLength * Len(dd.NameColumns)
        /\ Len(dd.NameColumns) = Len(ddPrev.NameColumns)
        /\ \A i \in 0..(Len(dd.NameColumns) - 1) :
               (i # ddPrev.FocusIndex /\ i # dd.FocusIndex) =>
                   RowOf(dd.bf, i, dd.TextLineLength)
                       = RowOf(ddPrev.bf, i, dd.TextLineLength)

\* A call moved the focus of a list of three rows, patching bf, with a third
\* row that is neither the old nor the new focus
C3_Witness ==
    /\ ddOp \in NavigationOps
    /\ Len(dd.NameColumns) >= 3
    /\ dd.FocusIndex # ddPrev.FocusIndex
    /\ dd.bf # ddPrev.bf

\* C4: add_item appends exactly one row of TextLineLength code units to bf,
\* whatever the length of the text, and does not throw, so that row i starts
\* at offset i * TextLineLength.
C4_AddItemAppendsOneRow ==
    ddOp = "add_item" =>
        /\ ~dd.thrown
        /\ Len(dd.bf) = Len(ddPrev.bf) + dd.TextLineLength
        /\ Len(dd.bf) = dd.NumIndexes * dd.TextLineLength

\* C11: on a non-empty list, move_down with the focus on the last item and
\* move_up with the focus on item 0 change none of TopIndex, FocusIndex and
\* bf; the call only pauses.
C11_BoundaryMovesAreNoOps ==
    ((ddOp = "move_down" /\ ddPrev.NumIndexes > 0
                         /\ ddPrev.FocusIndex = ddPrev.NumIndexes - 1)
     \/ (ddOp = "move_up" /\ ddPrev.NumIndexes > 0 /\ ddPrev.FocusIndex = 0)) =>
        /\ dd.TopIndex = ddPrev.TopIndex
        /\ dd.FocusIndex = ddPrev.FocusIndex
        /\ dd.bf = ddPrev.bf
        /\ dd.NameColumns = ddPrev.NameColumns
        /\ dd.writes = <<>>
        /\ dd.slept

\* move_down was called with the focus on the last of several items, in a
\* window scrolled away from the top
C11_Witness ==
    /\ ddOp = "move_down"
    /\ ddPrev.NumIndexes > 1
    /\ ddPrev.FocusIndex = ddPrev.NumIndexes - 1
    /\ ddPrev.TopIndex > 0
    /\ dd.slept

\* Area.num_rows() - 1 of the box before the last call
VisibleCount == ddPrev.AreaRows - 1
\* The last visible row before the last call
LastVisible == Min(ddPrev.TopIndex + VisibleCount - 1, ddPrev.NumIndexes - 1)

\* C12: page_down with the focus above the last visible row moves the focus
\* to the last visible row, min(TopIndex + visibleCount - 1, NumIndexes - 1),
\* and keeps TopIndex; TopIndex changes only when the focus already was on
\* the last visible row; with 30 items, visibleCount 10 and TopIndex 0 the
\* press at FocusIndex 5 gives FocusIndex 9 and TopIndex 0 and the press at
\* FocusIndex 9 gives TopIndex 9.
C12_PageDownFocusThenScroll ==
    (ddOp = "page_down" /\ ddPrev.NumIndexes > 0) =>
        /\ ddPrev.FocusIndex < LastVisible =>
               dd.FocusIndex = LastVisible /\ dd.TopIndex = ddPrev.TopIndex
        /\ dd.TopIndex # ddPrev.TopIndex => ddPrev.FocusIndex = LastVisible
        /\ (ddPrev.NumIndexes = 30 /\ VisibleCount = 10 /\ ddPrev.TopIndex = 0) =>
               /\ ddPrev.FocusIndex = 5 => dd.FocusIndex = 9 /\ dd.TopIndex = 0
               /\ ddPrev.FocusIndex = 9 => dd.TopIndex = 9

\* The second press of the scenario: 30 items, visibleCount 10, TopIndex 0,
\* focus on row 9, and page_down scrolled TopIndex to 9
C12_Witness ==
    /\ ddOp = "page_down"
    /\ ddPrev.NumIndexes = 30 /\ VisibleCount = 10
    /\ ddPrev.TopIndex = 0 /\ ddPrev.FocusIndex = 9
    /\ dd.TopIndex = 9

\* C13: whenever page_up or page_down scrolls the window, the focus moves by
\* exactly visibleCount - 1 items, up or down alike, clamped to
\* [0, NumIndexes - 1].
C13_PageJumpIsVisibleMinusOne ==
    (ddOp \in {"page_up", "page_down"} /\ dd.TopIndex # ddPrev.TopIndex) =>
        dd.FocusIndex =
            IF ddOp = "page_down"
            THEN Min(ddPrev.FocusIndex + VisibleCount - 1, ddPrev.NumIndexes - 1)
            ELSE Max(ddPrev.FocusIndex - (VisibleCount - 1), 0)

\* ------------------------------ scrollbars -------------------------------
\* The track cell of a bar that shows no thumb: a square in the track colour
\* for the horizontal bar, a blank on the track colour for the vertical one
InactiveCell ==
    IF sb.kind = "horizontal"
    THEN BarCell("FSQUARE", "track", "back", FALSE)
    ELSE BarCell(" ", "track", "track", FALSE)

\* C14: whenever a scrollbar of either kind is drawn for NumItems <=
\* BarLength items (NumItems = BarLength included), no thumb is computed and
\* every track cell is drawn alike, in the inactive colour.
C14_InactiveFullTrack ==
    (sb.head # <<>> /\ sb.NumItems <= sb.BarLength) =>
        /\ ~sb.thumb
        /\ \A i \in 1..Len(sb.cells) : sb.cells[i] = InactiveCell

\* C15: in the active case of either scrollbar, thumbStart is 0 exactly when
\* the first visible item is item 0.
C15_ThumbAtZeroIffAtTop ==
    (sb.head # <<>> /\ sb.thumb) => (sb.thumbStart = 0 <=> sb.FirstItem = 0)

\* the view is past the first item and so near the top of a long list that
\* the thumb is the minimum thumb at cell 0, which the bias moved to cell 1
C15_Witness ==
    /\ sb.head # <<>> /\ sb.thumb
    /\ sb.FirstItem > 0
    /\ (sb.FirstItem + sb.BarLength) * sb.BarLength < sb.NumItems
    /\ sb.thumbStart = 1 /\ sb.thumbEnd = 2

\* ------------------------- typing into an empty field --------------------
\* C16: typing n <= MaxLength displayable characters into an empty field
\* gives Text equal to the typed sequence (each key is appended to the Text
\* the call found), BeginIndex = max(0, n - boxLength) and BeginOffset =
\* min(n, boxLength) with boxLength = min(width, MaxLength); seven characters
\* typed into a field of width 5 and MaxLength 10 give BeginIndex 2 and a
\* visible window of the last five characters, on the terminal too.
C16_TypingScrollsWindow ==
    LET n == Len(ic.Text)
        boxLength == Min(ic.AreaCols, ic.MaxLength)
    IN  /\ ~ic.thrown
        /\ icKey = "none" => ic.Text = <<>>
        /\ icKey # "none" => ic.Text = Append(icPrev.Text, icKey) /\ ic.ret
        /\ ic.BeginIndex = Max(0, n - boxLength)
        /\ ic.BeginOffset = Min(n, boxLength)
        /\ (ic.AreaCols = 5 /\ ic.MaxLength = 10 /\ n = 7) =>
               /\ ic.BeginIndex = 2
               /\ format_to(ic, NoMask) = SubSeq(ic.Text, 3, 7)
               /\ ic.wc = NoMask => ic.cells = SubSeq(ic.Text, 3, 7)

\* the seventh character typed into the unmasked field of width 5 and
\* MaxLength 10, two of the characters scrolled out of the window
C16_Witness ==
    /\ ic.AreaCols = 5 /\ ic.MaxLength = 10 /\ ic.wc = NoMask
    /\ Len(ic.Text) = 7 /\ Len(icPrev.Text) = 6
    /\ ic.Text[1] # ic.Text[2]
    /\ ic.BeginIndex = 2

\* ------------------------------- coord_box --------------------------------
\* C17: for every rectangle R, inverted and negative ones included,
\* R.intersect(R) equals R after normalize().
C17_SelfIntersectIsNormalized ==
    (bx.op = "intersect" /\ bx.rhs = bx.box) =>
        bx.out = normalize(bx.box, 1, 1)

\* a rectangle with top <= bottom in both axes
WellFormed(b) == b.Top.Row <= b.Bottom.Row /\ b.Top.Col <= b.Bottom.Col

\* C18: the intersection of disjoint rectangles has num_cols() <= 0 or
\* num_rows() <= 0; the intersection of well-formed rectangles that are not
\* disjoint has positive width and height and is contained in both.
C18_IntersectOfDisjointIsEmpty ==
    bx.op = "intersect" =>
        /\ disjoint(bx.box, bx.rhs) =>
               (num_cols(bx.out) <= 0 \/ num_rows(bx.out) <= 0)
        /\ (WellFormed(bx.box) /\ WellFormed(bx.rhs) /\ ~disjoint(bx.box, bx.rhs)) =>
               /\ num_cols(bx.out) > 0 /\ num_rows(bx.out) > 0
               /\ contains(bx.box, bx.out) /\ contains(bx.rhs, bx.out)

\* two well-formed rectangles that overlap in part, neither inside the other
C18_Witness ==
    /\ bx.op = "intersect"
    /\ WellFormed(bx.box) /\ WellFormed(bx.rhs) /\ ~disjoint(bx.box, bx.rhs)
    /\ ~contains(bx.box, bx.rhs) /\ ~contains(bx.rhs, bx.box)
    /\ num_rows(bx.out) > 1

\* C19: for a rectangle of H rows and W columns and 1 <= h <= H, 1 <= w <= W,
\* center_box(h, w) has exactly h rows and w columns, lies inside the parent,
\* has the top margin (H - h) / 2 and the left margin (W - w) / 2 rounded
\* down, so that the top/left margin is at most the bottom/right margin and
\* at most one less; {(0,0),(9,19)}.center_box(3, 5) is {(3,7),(5,11)}.
C19_CenterBox ==
    LET H == num_rows(bx.box)
        W == num_cols(bx.box)
        top == bx.out.Top.Row - bx.box.Top.Row
        left == bx.out.Top.Col - bx.box.Top.Col
        bottom == bx.box.Bottom.Row - bx.out.Bottom.Row
        right == bx.box.Bottom.Col - bx.out.Bottom.Col
    IN  (bx.op = "center_box" /\ bx.r <= H /\ bx.c <= W) =>
            /\ num_rows(bx.out) = bx.r /\ num_cols(bx.out) = bx.c
            /\ contains(bx.box, bx.out)
            /\ top = (H - bx.r) \div 2 /\ left = (W - bx.c) \div 2
            /\ top <= bottom /\ bottom - top <= 1
            /\ left <= right /\ right - left <= 1
            /\ (bx.box = Box(0, 0, 9, 19) /\ bx.r = 3 /\ bx.c = 5) =>
                   bx.out = Box(3, 7, 5, 11)

\* the 3 x 5 child centred in the 10 x 20 screen, with odd row and column
\* margins
C19_Witness ==
    /\ bx.op = "center_box"
    /\ bx.box = Box(0, 0, 9, 19) /\ bx.r = 3 /\ bx.c = 5
    /\ bx.out.Top = [Row |-> 3, Col |-> 7]

\* C20: after R.normalize(minRows, minCols), Top.Row >= 0 and Top.Col >= 0,
\* num_rows() >= minRows and num_cols() >= minCols, Bottom is not moved up
\* or left of a non-negative original position, and a second normalize with
\* the same arguments changes nothing.
C20_NormalizeRepairs ==
    bx.op = "normalize" =>
        /\ bx.out.Top.Row >= 0 /\ bx.out.Top.Col >= 0
        /\ num_rows(bx.out) >= bx.r /\ num_cols(bx.out) >= bx.c
        /\ bx.box.Bottom.Row >= 0 => bx.out.Bottom.Row >= bx.box.Bottom.Row
        /\ bx.box.Bottom.Col >= 0 => bx.out.Bottom.Col >= bx.box.Bottom.Col
        /\ normalize(bx.out, bx.r, bx.c) = bx.out

\* The row and the column that a position sequence ESC [ row ; col H names
\* (0 for a sequence of another form)
RECURSIVE Number(_)
Number(ds) ==
    IF ds = <<>> THEN 0
    ELSE 10 * Number(SubSeq(ds, 1, Len(ds) - 1))
         + (CHOOSE n \in 0..9 : Digit(n) = ds[Len(ds)])
SeqRow(q) == IF Len(q) = 12 THEN Number(SubSeq(q, 3, 6)) ELSE 0
SeqCol(q) == IF Len(q) = 12 THEN Number(SubSeq(q, 8, 11)) ELSE 0

\* C21: for every coord, ones with a negative row or column included,
\* coord::apply emits a position sequence of the fixed 12 code units whose
\* 1-based row and column are both >= 1 (negative values are clamped to 0
\* before the emission).
C21_ApplyClampsNegative ==
    bx.op = "apply" =>
        /\ Len(bx.seq) = 12
        /\ SeqRow(bx.seq) >= 1 /\ SeqCol(bx.seq) >= 1

\* ----------------------- the list's terminal writes ----------------------
\* C22: each call of move_up, move_down, page_up, page_down, swap_select,
\* move_left or move_right that changes the on-screen appearance produces
\* exactly one terminal write call.
C22_OneWritePerOperation ==
    (ddOp \in NavigationOps /\ ~dd.thrown
        /\ (dd.bf # ddPrev.bf \/ dd.TopIndex # ddPrev.TopIndex)) =>
        Len(dd.writes) = 1

\* C23: move_up, move_down, page_up and page_down return -1 when the list is
\* empty and the FocusIndex in effect after the call otherwise.
C23_ReturnsFocusOrMinusOne ==
    (ddOp \in {"move_up", "move_down", "page_up", "page_down"} /\ ~dd.thrown) =>
        dd.ret = IF ddPrev.NumIndexes = 0 THEN -1 ELSE dd.FocusIndex

\* The rows of bf that the last call wrote to the terminal
RowsWritten ==
    UNION { (dd.writes[i].from \div dd.TextLineLength)
                ..((dd.writes[i].from + dd.writes[i].len) \div dd.TextLineLength - 1) :
            i \in { j \in 1..Len(dd.writes) : dd.writes[j].buf = "bf" } }
\* The commands of the TempBuffer writes of the last call
CmdsWritten ==
    UNION { { dd.writes[i].cmds[k] : k \in 1..Len(dd.writes[i].cmds) } :
            i \in { j \in 1..Len(dd.writes) : dd.writes[j].buf = "TempBuffer" } }

\* C24: a move_up, move_down, page_up or page_down that writes and leaves
\* TopIndex unchanged writes only the old-focus and the new-focus row of bf;
\* one that changes TopIndex writes the whole visible window, from the new
\* TopIndex on, placed at the first row of the Area, and redraws the vertical
\* scrollbar with the new TopIndex as first visible row.
C24_RepaintTwoRowsOrWindow ==
    (ddOp \in {"move_up", "move_down", "page_up", "page_down"} /\ ~dd.thrown
        /\ dd.writes # <<>>) =>
        IF dd.TopIndex = ddPrev.TopIndex
        THEN RowsWritten = {ddPrev.FocusIndex, dd.FocusIndex}
        ELSE /\ RowsWritten = dd.TopIndex..(dd.TopIndex + dd.AreaRows - 2)
             /\ Cmd("vScroll.draw", dd.TopIndex, dd.NumIndexes) \in CmdsWritten
             /\ Cmd("SetPos", 0, 0) \in CmdsWritten

\* move_up scrolled a window of several rows up by one row
C24_Witness ==
    /\ ddOp = "move_up"
    /\ dd.TopIndex = ddPrev.TopIndex - 1
    /\ dd.AreaRows > 2
    /\ Cardinality(RowsWritten) = dd.AreaRows - 1

\* ----------------------- the scrollbars' thumb ---------------------------
\* The number of cells between the two arrows of the bar drawn last
TrackLength == IF sb.kind = "horizontal" THEN sb.BarLength ELSE sb.BarLength - 2

\* C25: for a track of at least one cell, more items than the bar is long
\* and a first visible item in 0..NumItems - BarLength, both scrollbars
\* compute 0 <= thumbStart < thumbEnd <= track length and draw exactly
\* track-length cells between the two arrows.
C25_ThumbInsideTrack ==
    (sb.head # <<>> /\ TrackLength >= 1 /\ sb.NumItems > sb.BarLength
        /\ sb.FirstItem <= sb.NumItems - sb.BarLength) =>
        /\ sb.thumb
        /\ 0 <= sb.thumbStart /\ sb.thumbStart < sb.thumbEnd
        /\ sb.thumbEnd <= TrackLength
        /\ Len(sb.cells) = TrackLength

\* C26: in the active case of both scrollbars, thumbEnd equals the track
\* length exactly when the view reaches the end of the content (first
\* visible + BarLength >= NumItems); otherwise it is below the track length.
C26_ThumbAtEndIffViewAtEnd ==
    (sb.head # <<>> /\ sb.thumb) =>
        /\ (sb.thumbEnd = TrackLength) <=> (sb.FirstItem + sb.BarLength >= sb.NumItems)
        /\ sb.FirstItem + sb.BarLength < sb.NumItems => sb.thumbEnd < TrackLength

\* ------------------------- get() and get_hidden() -------------------------
\* C27: after Escape cancels get() or get_hidden() the control is in the
\* reset state (Text empty, BeginIndex = 0, BeginOffset = 0), and no later
\* get, get_hidden or insert on the control raises the invalid-state error.
C27_EscapeResets ==
    /\ icKey = "ESCAPEKEY" =>
           ic.Text = <<>> /\ ic.BeginIndex = 0 /\ ic.BeginOffset = 0
    /\ ~ic.thrown

\* ------------------------------- masking ----------------------------------
\* What insert leaves of the editing state and its return value
EditState(s) ==
    [Text |-> s.Text, BeginIndex |-> s.BeginIndex, BeginOffset |-> s.BeginOffset,
     InsertOn |-> s.InsertOn, ret |-> s.ret, thrown |-> s.thrown]

\* C28: masking changes only what is displayed: the state (Text, BeginIndex,
\* BeginOffset, insert mode) and the return value insert produces for a key
\* are the same for every mask character, zero or not, and while the mask
\* character wc is non-zero the cells of the field on the terminal hold only
\* mask characters and padding spaces, no character of Text.
C28_MaskingOnlyChangesDisplay ==
    /\ icKey \in Keys =>
           \A m \in MaskChars :
               EditState(insert([icPrev EXCEPT !.wc = m], icKey)) = EditState(ic)
    /\ ic.wc # NoMask =>
           \A i \in 1..Len(ic.cells) : ic.cells[i] \in {ic.wc, " "}

\* ------------------------- the edits of the text --------------------------
\* The cursor index BeginIndex + BeginOffset of a field
CursorIndex(s) == s.BeginIndex + s.BeginOffset

\* C29: for a field below MaxLength with cursor index c: a displayable
\* character x in insert mode changes Text to Text[0..c) + x + Text[c..); in
\* overwrite mode with c < len(Text) it replaces only Text[c] by x; Backspace
\* with c > 0 removes exactly Text[c-1]; Delete with c < len(Text) removes
\* exactly Text[c]; Backspace at c = 0 and Delete at c = len(Text) leave Text
\* unchanged.
C29_TextEdits ==
    (icKey # "none" /\ Len(icPrev.Text) < icPrev.MaxLength) =>
        LET T == icPrev.Text
            c == CursorIndex(icPrev)
        IN  /\ (icKey \in DisplayChars /\ ~icPrev.InsertOn) =>
                   ic.Text = SubSeq(T, 1, c) \o <<icKey>> \o SubSeq(T, c + 1, Len(T))
            /\ (icKey \in DisplayChars /\ icPrev.InsertOn /\ c < Len(T)) =>
                   /\ Len(ic.Text) = Len(T)
                   /\ \A i \in 1..Len(T) :
                          ic.Text[i] = IF i = c + 1 THEN icKey ELSE T[i]
            /\ (icKey = "BACKSPACEKEY" /\ c > 0) =>
                   ic.Text = SubSeq(T, 1, c - 1) \o SubSeq(T, c + 1, Len(T))
            /\ (icKey = "DELETEKEY" /\ c < Len(T)) =>
                   ic.Text = SubSeq(T, 1, c) \o SubSeq(T, c + 2, Len(T))
            /\ (icKey = "BACKSPACEKEY" /\ c = 0) => ic.Text = T
            /\ (icKey = "DELETEKEY" /\ c = Len(T)) => ic.Text = T

\* Delete removed a character from the middle of a text below MaxLength, and
\* the character was not the same as the last one
C29_Witness ==
    /\ icKey = "DELETEKEY"
    /\ Len(icPrev.Text) < icPrev.MaxLength
    /\ CursorIndex(icPrev) > 0
    /\ CursorIndex(icPrev) + 1 < Len(icPrev.Text)
    /\ icPrev.Text[CursorIndex(icPrev) + 1] # icPrev.Text[Len(icPrev.Text)]
    /\ Len(ic.Text) = Len(icPrev.Text) - 1

\* ------------------------ the moves of the cursor -------------------------
\* C30: Left decreases the cursor index by exactly 1 unless it is 0, Right
\* increases it by exactly 1 unless it equals len(Text), Home sets BeginIndex
\* and BeginOffset to 0, End sets the cursor index to len(Text); none of the
\* four keys changes Text, and Left and Right change BeginIndex by at most 1
\* and only when the cursor is at the edge of the visible field.
C30_CursorMoves ==
    LET c == CursorIndex(icPrev)
        BoxLength == box_length(icPrev)
    IN  /\ icKey = "LEFTKEY" =>
               /\ CursorIndex(ic) = IF c = 0 THEN 0 ELSE c - 1
               /\ ic.BeginIndex \in {icPrev.BeginIndex, icPrev.BeginIndex - 1}
               /\ ic.BeginIndex # icPrev.BeginIndex => icPrev.BeginOffset = 0
        /\ icKey = "RIGHTKEY" =>
               /\ CursorIndex(ic) = IF c = Len(icPrev.Text) THEN c ELSE c + 1
               /\ ic.BeginIndex \in {icPrev.BeginIndex, icPrev.BeginIndex + 1}
               /\ ic.BeginIndex # icPrev.BeginIndex => icPrev.BeginOffset = BoxLength
        /\ icKey = "HOMEKEY" => ic.BeginIndex = 0 /\ ic.BeginOffset = 0
        /\ icKey = "ENDKEY" => CursorIndex(ic) = Len(ic.Text)
        /\ icKey \in {"LEFTKEY", "RIGHTKEY", "HOMEKEY", "ENDKEY"} =>
               ic.Text = icPrev.Text

\* Left at the left edge of a scrolled field moved the window by one
C30_Witness ==
    /\ icKey = "LEFTKEY"
    /\ icPrev.BeginOffset = 0
    /\ icPrev.BeginIndex > 0
    /\ ic.BeginIndex = icPrev.BeginIndex - 1
    /\ ic.BeginOffset = 0

\* --------------------- the colour markers of the rows ---------------------
\* The marker row i of bf starts with
MarkerOf(d, i) == SubSeq(d.bf, i * d.TextLineLength + 1,
                         i * d.TextLineLength + Len(d.CommInit))

\* The marker the focus and the selection call for on row i
MarkerWanted(d, i) ==
    IF i = d.FocusIndex
    THEN (IF d.NameColumns[i + 1].Selected THEN d.CommBoth ELSE d.CommFocus)
    ELSE (IF d.NameColumns[i + 1].Selected THEN d.CommSelect ELSE d.CommInit)

\* C32: on a non-empty list, after create() and after every move_up,
\* move_down, page_up, page_down and swap_select, the colour marker at the
\* start of row i is the focus+selected, the focus, the selected or the plain
\* marker as i is the focused row or not and item i is selected or not; exactly
\* one row carries a focus marker.
C32_MarkersFollowFocusAndSelection ==
    (dd.phase = "ready" /\ ~dd.thrown /\ dd.NumIndexes > 0) =>
        /\ \A i \in 0..(dd.NumIndexes - 1) : MarkerOf(dd, i) = MarkerWanted(dd, i)
        /\ Cardinality({ i \in 0..(dd.NumIndexes - 1) :
                            MarkerOf(dd, i) \in {dd.CommFocus, dd.CommBoth} }) = 1

\* The focus moved from a selected item to another selected item
C32_Witness ==
    /\ dd.phase = "ready" /\ ~dd.thrown
    /\ ddOp \in {"move_up", "move_down", "page_up", "page_down"}
    /\ dd.FocusIndex # ddPrev.FocusIndex
    /\ dd.NameColumns[dd.FocusIndex + 1].Selected
    /\ dd.NameColumns[ddPrev.FocusIndex + 1].Selected
    /\ MarkerOf(dd, dd.FocusIndex) = dd.CommBoth
    /\ MarkerOf(dd, ddPrev.FocusIndex) = dd.CommSelect

\* -------------------------- the end of the list ---------------------------
\* C33: after create() and any sequence of move_up, move_down, page_up and
\* page_down the window never scrolls past the end of the list: TopIndex <=
\* max(0, NumIndexes - visibleCount), and every write of rows of bf lies
\* inside bf.
C33_WindowInsideList ==
    (dd.phase = "ready" /\ ~dd.thrown) =>
        /\ dd.TopIndex <= Max(0, dd.NumIndexes - NumLinesOf(dd))
        /\ (dd.TopIndex + NumLinesOf(dd)) * dd.TextLineLength <= Len(dd.bf)
        /\ \A k \in 1..Len(dd.writes) :
               dd.writes[k].buf = "bf" =>
                   /\ dd.writes[k].from + dd.writes[k].len <= Len(dd.bf)
                   /\ dd.writes[k].len % dd.TextLineLength = 0
                   /\ dd.writes[k].len > 0

\* page_down scrolled the window of a list longer than the window to the
\* very end of the list, by less than a page
C33_Witness ==
    /\ ddOp = "page_down" /\ ~dd.thrown
    /\ dd.TopIndex = dd.NumIndexes - NumLinesOf(dd)
    /\ dd.TopIndex > ddPrev.TopIndex
    /\ dd.TopIndex - ddPrev.TopIndex < NumLinesOf(dd) - 1
    /\ dd.FocusIndex = dd.NumIndexes - 1

\* ----------------------- the items' horizontal scroll ---------------------
\* The length of item i: the left column and what NameContainer holds of it
ItemLength(d, i) == LeftColumnSize + ColSize(d.NameColumns[i + 1])

\* The code unit of row i of bf at offset off
RowUnit(d, i, off) == d.bf[i * d.TextLineLength + off + 1]

\* The RightColumnSize cells that show the item's characters from index
\* first on, padded with spaces past the end of the item
RightColumnWanted(d, i, first) ==
    [k \in 1..d.RightColumnSize |->
        IF first + k <= ItemLength(d, i) THEN ItemText(ItemLength(d, i))[first + k]
        ELSE " "]

\* C36: for every item and after any sequence of move_left and move_right,
\* LeftColumnSize <= FirstIndex <= max(LeftColumnSize, itemLength -
\* RightColumnSize); the row's left indicator is shown exactly when FirstIndex
\* > LeftColumnSize, the right indicator exactly when FirstIndex < itemLength
\* - RightColumnSize, and the right column shows the item's characters
\* [FirstIndex, FirstIndex + RightColumnSize).
C36_HorizontalScrollOfItems ==
    (dd.phase \in {"init", "ready"} /\ ~dd.thrown) =>
        \A i \in 0..(dd.NumIndexes - 1) :
            LET item == dd.NameColumns[i + 1]
                last == ItemLength(dd, i) - dd.RightColumnSize
            IN  /\ LeftColumnSize <= item.FirstIndex
                /\ item.FirstIndex <= Max(LeftColumnSize, last)
                /\ RowUnit(dd, i, dd.offsetLeftSign) =
                       (IF item.FirstIndex > LeftColumnSize THEN LLQUOTE[1] ELSE " ")
                /\ RowUnit(dd, i, dd.offsetRightSign) =
                       (IF item.FirstIndex < last THEN RRQUOTE[1] ELSE " ")
                /\ SubSeq(dd.bf, i * dd.TextLineLength + dd.offsetColumn2 + 1,
                          i * dd.TextLineLength + dd.offsetColumn2 + dd.RightColumnSize)
                       = RightColumnWanted(dd, i, item.FirstIndex)

\* move_right brought an item that is not the first of the list to its
\* rightmost position, while another item stays scrolled in between
C36_Witness ==
    /\ ddOp = "move_right" /\ ~dd.thrown
    /\ dd.FocusIndex > 0
    /\ dd.NameColumns[dd.FocusIndex + 1].FirstIndex
           = ItemLength(dd, dd.FocusIndex) - dd.RightColumnSize
    /\ dd.NameColumns[dd.FocusIndex + 1].FirstIndex > LeftColumnSize + 1
    /\ dd.NameColumns[1].FirstIndex = LeftColumnSize + 1
    /\ RowUnit(dd, dd.FocusIndex, dd.offsetRightSign) = " "

\* -------------------------------- squeeze ---------------------------------
\* The indexes of the items squeeze() found selected, in their order
RECURSIVE SelectedBefore(_)
SelectedBefore(n) ==
    IF n = 0 THEN <<>>
    ELSE IF ddPrev.NameColumns[n].Selected
         THEN Append(SelectedBefore(n - 1), n - 1)
         ELSE SelectedBefore(n - 1)

\* Row i of bf without its colour marker
RowText(d, i) == SubSeq(d.bf, i * d.TextLineLength + Len(d.CommInit) + 1,
                        (i + 1) * d.TextLineLength)

\* C34: after squeeze() the list consists of exactly the previously selected
\* items in their original order: NumIndexes equals the previous selection
\* count, for every i < NumIndexes both row i of bf and NameColumns[i]
\* describe the i-th previously selected item, and get_selection_count() ==
\* NumIndexes.
C34_SqueezeKeepsSelected ==
    (ddOp = "squeeze" /\ ~dd.thrown) =>
        LET sel == SelectedBefore(ddPrev.NumIndexes)
        IN  /\ dd.NumIndexes = Len(sel)
            /\ \A i \in 0..(dd.NumIndexes - 1) :
                   /\ RowText(dd, i) = RowText(ddPrev, sel[i + 1])
                   /\ dd.NameColumns[i + 1] = ddPrev.NameColumns[sel[i + 1] + 1]
            /\ get_selection_count(dd) = dd.NumIndexes

\* ----------------- the terminal follows the tracked state -----------------
\* C38: if the terminal's attribute state equals the cursor's tracked state
\* (as right after apply(buf)), then after any sequence of buffer-emitting
\* calls on the cursor (set_*, update_*, set_to, update_to, apply_mirror)
\* the attribute state obtained by reading the emitted sequences in order
\* still equals the tracked state.
C38_TerminalFollowsTrackedState == tm = cu

\* update_to sent the shape, the bold attribute and the back colour only,
\* and the terminal that read them shows the tracked state
C38_Witness ==
    /\ \E sh \in Shapes, r \in Palette :
          SelectSeq(cuBuf, IsSequence) =
              << Esc("48;2", <<r.r, r.g, r.b>>), Esc("q", <<sh>>),
                 Esc("1m", <<>>) >>
    /\ cu.F.BOLD = 1
    /\ tm = cu

\* ----------------- the footer's width and the blink phases ----------------
\* What every fill_end leaves behind the content: the right edge character,
\* ClrUnderline and MoveLeft
FooterTail == RIGHTHALF \o CsiUnits(<<"2", "4", "m">>) \o CsiUnits(<<"D">>)
\* The code units between the two edge characters, and the cells they fill
FooterContent(f) == SubSeq(f.bf, f.InitSize + 1, Len(f.bf) - Len(FooterTail))
Cells(s) == Len(SelectSeq(s, LAMBDA u : u # "+"))
\* s begins with p
StartsWith(s, p) == Len(s) >= Len(p) /\ SubSeq(s, 1, Len(p)) = p

\* C35: after create and any sequence of clear, append, push_back,
\* update_status, centered_text and right_aligned_text, Capacity >= 0 and the
\* footer renders exactly Area.num_cols() - 2 cells (content plus trailing
\* spaces) between its two edge characters; centered_text and
\* right_aligned_text keep their leading padding in front of the text.
C35_FooterWidth ==
    ft.created =>
        /\ ft.Capacity >= 0
        /\ Cells(FooterContent(ft)) = ft.NumCols - 2
        /\ (ft.op = "centered_text" /\ ft.arg < ft.NumCols - 2) =>
               StartsWith(FooterContent(ft),
                          Rep((ft.NumCols - 2 - ft.arg) \div 2, " ") \o ItemText(ft.arg))
        /\ (ft.op = "right_aligned_text" /\ ft.arg < ft.NumCols - 2) =>
               StartsWith(FooterContent(ft),
                          Rep(ft.NumCols - 2 - ft.arg, " ") \o ItemText(ft.arg))

\* The phases of n blinks: highlighted, normal, ..., 2 * n of them
Alternating(n) == [i \in 1..(2 * n) |-> IF i % 2 = 1 THEN "highlighted" ELSE "normal"]

\* C31: FooterBox::blink and MultilineMessageBox::blink called with n blinks
\* each display exactly 2 * n phases that strictly alternate highlighted,
\* normal, starting highlighted and ending normal, and on return the
\* widget's buffer is identical to its content before the call.
C31_BlinkPhasesAndBuffer ==
    /\ ft.op = "blink" => ft.shown = Alternating(ft.arg) /\ ft.bf = ft.before
    /\ mb.op = "blink" => mb.shown = Alternating(mb.arg) /\ mb.bf = mb.before

\* ----------------- the fixed-width patches of the ButtonBox ---------------
\* The positions (from 1) of the spans the last call targets: the colour
\* markers, the position markers, or the text region of one button, each of
\* its recorded width
ColorSpan(b, i) ==
    { b.LineBlockSize * i + k : k \in 1..b.LineBlockCoordOffset }
CoordSpan(b, i) ==
    { b.LineBlockSize * i + b.LineBlockCoordOffset + k :
        k \in 1..(b.LineBlockTextOffset - b.LineBlockCoordOffset - Len(Preamble)) }
TextSpan(b, i) ==
    { b.LineBlockSize * i + b.LineBlockTextOffset + k : k \in 1..b.NumCols }
TargetedSpan(b) ==
    CASE b.op \in {"set_focus", "move_up", "move_down", "page_up", "page_down"} ->
             UNION { ColorSpan(b, i) : i \in 0..(b.NumRows - 1) }
      [] b.op = "move_to" -> UNION { CoordSpan(b, i) : i \in 0..(b.NumRows - 1) }
      [] b.op = "update_button" -> TextSpan(b, b.arg)
      [] OTHER -> {}

\* C37: every patch of the ButtonBox (colour marker, position marker, text
\* region) writes exactly the recorded fixed width of its span, so after
\* clear() and any sequence of append, update_button, set_focus, move_up,
\* move_down, page_up, page_down and move_to, bf.size() == LineBlockSize *
\* button_count() and no code unit outside the targeted span changes.
C37_FixedWidthPatches ==
    bb.cleared =>
        /\ Len(bb.bf) = bb.LineBlockSize * button_count(bb)
        /\ bb.op # "clear" =>
             \A p \in 1..Len(bb.before) :
                 p \notin TargetedSpan(bb) =>
                     p <= Len(bb.bf) /\ bb.bf[p] = bb.before[p]

\* ----------------- the cells of the progress bar --------------------------
\* What draw appended behind the pre-message part of bf, and its cells
\* before and behind the switch of colours
BarUnits == SubSeq(pb.bf, pb.PreMessageSize + 1, Len(pb.bf))
FilledWanted == (pb.Percentage * pb.NumCols) \div 100
IsCell(u) == u = " " \/ u = "%" \/ \E n \in 0..9 : u = Digit(n)

\* C39: for every bar width from 4 to 100 and every percentage from 0 to
\* 100, draw renders exactly barWidth cells (spaces plus the percentage
\* text), of which the first percentage * barWidth / 100 cells are in the
\* filled colour and the rest in the unfilled colour.
C39_BarCells ==
    (pb.created /\ pb.NumCols \in 4..100 /\ pb.Percentage \in 0..100) =>
        LET Mirror == ColorApplyMirror(ProgressBarColor)
            Cells0 == SubSeq(BarUnits, 1, FilledWanted)
            Cells1 == SubSeq(BarUnits, FilledWanted + Len(Mirror) + 1, Len(BarUnits))
        IN  /\ Len(BarUnits) = pb.NumCols + Len(Mirror)
            /\ SubSeq(BarUnits, FilledWanted + 1, FilledWanted + Len(Mirror)) = Mirror
            /\ \A i \in 1..Len(Cells0) : IsCell(Cells0[i])
            /\ \A i \in 1..Len(Cells1) : IsCell(Cells1[i])
            /\ \E k \in 0..pb.NumCols :
                   Cells0 \o Cells1 =
                       Rep(k, " ") \o PercentageText(pb.Percentage)
                           \o Rep(pb.NumCols - k - Len(PercentageText(pb.Percentage)), " ")

====
